---- MODULE Spec2Model ----
(***************************************************************************)
(* Verification model of the DMS dashboard (src/app_supabase.py).          *)
(*                                                                         *)
(* Conventions                                                             *)
(*  - text is a sequence of one-character strings, so that UPPER, TRIM,    *)
(*    strip, replace and the whitespace regex are computed, not assumed;   *)
(*  - a nullable SQL value is NULL == <<>> or Some(v) == <<v>>;            *)
(*  - a date is its age in whole months before NOW(), so                   *)
(*    "d >= NOW() - INTERVAL 'W months'" reads "age <= W";                 *)
(*  - money and scores with 2 decimals are integers in hundredths.         *)
(***************************************************************************)
EXTENDS Integers, Sequences, FiniteSets, Bags, TLC

VARIABLES
    tbl_moteurs,               \* rows of tbl_moteurs (joined with their reception date)
    tbl_expeditions_moteurs,   \* rows of tbl_expeditions_moteurs
    besoins,                   \* data frame returned by the last get_besoins_moteurs call
    besoins_top_n,             \* top_n of that call, 0 when there was no call on this snapshot
    df_row,                    \* one data-frame row [nb_vendus_3m, nb_stock_dispo, score_urgence]
    text_in,                   \* argument of the last normalize_text call
    text_out,                  \* its result
    variants_in,               \* argument of the last create_search_variants call
    variants,                  \* its result
    search_besoins,            \* the need list shown on the breaker page (rows with index labels)
    search_text,               \* search_text of the last smart_match_motor call on it, NULL if none
    search_scores,             \* the list scores of that call: <<index label, score>>
    search_result,             \* the data frame the call returned
    observations,              \* bag of the priced rows the price-movement queries read
    movers_args,               \* arguments of the last get_price_movers call, NULL if none
    movers,                    \* the records that call returned
    plaque_besoins,            \* the need list handed to filter_besoins_by_plaque
    plaque_info,               \* plaque_info of the last filter_besoins_by_plaque call, NULL if none
    plaque_result,             \* what the call did: [raised, df]
    casse_page,                \* session_state["casse_page"], NULL while the key is not set
    casse_total,               \* len(besoins) of the need list of the last rerun of the breaker page
    session_state,             \* per browser session: [authenticated, mode, page, breaker_ok, breaker_id]
    rendered,                  \* per session: what the last run of main showed
    login_by,                  \* per session: how the mode of the session was set
    call,                      \* per session: the get_or_create_breaker call between its SELECT and its INSERT
    last_call,                 \* per session: name and outcome of its last get_or_create_breaker call
    breakers,                  \* rows of public.breakers, in insertion order
    breakers_id_seq,           \* last value of the sequence of breakers.id
    sql_df_cache,              \* st.cache_data entries of the breaker SELECT, by name
    breaker_click_offers,      \* rows of breaker_click_offers, in insertion order
    breaker_free_offers,       \* rows of breaker_free_offers, in insertion order
    submission                 \* the last click on a send button: what was typed and whether a row was written

needVars  == <<tbl_moteurs, tbl_expeditions_moteurs, besoins, besoins_top_n>>
scoreVars == <<df_row>>
normVars  == <<text_in, text_out>>
variantVars == <<variants_in, variants>>
matchVars == <<search_besoins, search_text, search_scores, search_result>>
moverVars == <<observations, movers_args, movers>>
plaqueVars == <<plaque_besoins, plaque_info, plaque_result>>
pageVars == <<casse_page, casse_total>>
sessionVars == <<session_state, rendered, login_by, call, last_call>>
tableVars == <<breakers, breakers_id_seq, sql_df_cache, breaker_click_offers, breaker_free_offers, submission>>
appVars == <<plaqueVars, pageVars, sessionVars, tableVars>>
vars      == <<needVars, scoreVars, normVars, variantVars, matchVars, moverVars, appVars>>

(***************************************************************************)
(* Bounds of the model                                                     *)
(***************************************************************************)
MaxMoteurs == 3
MaxExpeditions == 3
MaxTopN == 2
MaxVendus == 10
MaxStock == 12
MaxLen == 3
MaxCandidates == 2
MaxWords == 5
MaxObs == 4
MaxTotal == 41
MaxIds == 3
MaxOffers == 2

(***************************************************************************)
(* Nullable values and small arithmetic helpers                            *)
(***************************************************************************)
NULL == <<>>
Some(v) == <<v>>
IsNull(o) == o = <<>>
Val(o) == o[1]

Min(a, b) == IF a <= b THEN a ELSE b

RECURSIVE SumOver(_, _)
SumOver(S, f) ==
    IF S = {} THEN 0
    ELSE LET x == CHOOSE y \in S : TRUE IN f[x] + SumOver(S \ {x}, f)

\* n/d (n >= 0, d > 0) rounded to the nearest integer, ties to the even one:
\* numpy's round, used by pandas Series.round
RoundHalfEven(n, d) ==
    LET q == n \div d
        r == n % d
    IN  IF 2 * r > d THEN q + 1
        ELSE IF 2 * r < d THEN q
        ELSE IF q % 2 = 0 THEN q ELSE q + 1

\* n/d (n >= 0, d > 0) rounded to the nearest integer, ties away from zero:
\* PostgreSQL ROUND(numeric, 2)
RoundHalfUp(n, d) == (2 * n + d) \div (2 * d)

(***************************************************************************)
(* Browser sessions and breaker names                                      *)
(***************************************************************************)
\* the browser sessions of the model
Sessions == {1, 2}

\* st.session_state of a new session, and after session_state.clear()
NoSession ==
    [authenticated |-> FALSE, mode |-> NULL, page |-> NULL,
     breaker_ok |-> FALSE, breaker_id |-> NULL]

\* the names breakers are stored under
BreakerNames == {<<"A">>, <<"B">>}

(***************************************************************************)
(* Text                                                                    *)
(***************************************************************************)
UpperChar(c) ==
    CASE c = "a" -> "A"
      [] c = "k" -> "K"
      [] c = "m" -> "M"
      [] c = "o" -> "O"
      [] c = "n" -> "N"
      [] c = "e" -> "E"
      [] OTHER -> c

\* str.upper() / SQL UPPER()
Upper(s) == [i \in DOMAIN s |-> UpperChar(s[i])]

\* the characters Python's str.strip() and the regex class \s take for whitespace
IsSpace(c) == c \in {" ", "\t"}

\* str.strip()
RECURSIVE Strip(_)
Strip(s) ==
    IF s = <<>> THEN s
    ELSE IF IsSpace(Head(s)) THEN Strip(Tail(s))
    ELSE IF IsSpace(s[Len(s)]) THEN Strip(SubSeq(s, 1, Len(s) - 1))
    ELSE s

\* str.replace(old, new) for one-character old and new
Replace(s, old, new) == [i \in DOMAIN s |-> IF s[i] = old THEN new ELSE s[i]]

\* re.sub(r"\s+", " ", s): every maximal run of whitespace becomes one space
RECURSIVE ReSubSpaces(_)
ReSubSpaces(s) ==
    IF s = <<>> THEN s
    ELSE IF IsSpace(Head(s))
         THEN IF Len(s) >= 2 /\ IsSpace(s[2]) THEN ReSubSpaces(Tail(s))
              ELSE <<" ">> \o ReSubSpaces(Tail(s))
         ELSE <<Head(s)>> \o ReSubSpaces(Tail(s))

\* normalize_text(text); text is NULL for None
normalize_text(text) ==
    IF IsNull(text) \/ Val(text) = <<>> THEN <<>>
    ELSE LET t1 == Strip(Upper(Val(text)))
             t2 == Replace(Replace(Replace(t1, "-", " "), "_", " "), ".", " ")
         IN  ReSubSpaces(t2)

\* SQL TRIM(): removes leading and trailing spaces
RECURSIVE SqlTrim(_)
SqlTrim(s) ==
    IF s = <<>> THEN s
    ELSE IF Head(s) = " " THEN SqlTrim(Tail(s))
    ELSE IF s[Len(s)] = " " THEN SqlTrim(SubSeq(s, 1, Len(s) - 1))
    ELSE s

\* SQL LEFT(s, n)
Left(s, n) == SubSeq(s, 1, Min(n, Len(s)))

\* SQL COALESCE(o, d)
Coalesce(o, d) == IF IsNull(o) THEN d ELSE Val(o)

\* UPPER() of a nullable text
UpperOpt(o) == IF IsNull(o) THEN NULL ELSE Some(Upper(Val(o)))

(***************************************************************************)
(* The database snapshot read by get_besoins_moteurs                       *)
(*                                                                         *)
(* A row of tbl_moteurs is                                                 *)
(*   [n_moteur, code_moteur, n_type_moteur, prix_achat_moteur,             *)
(*    date_achat, archiver]                                                *)
(* where date_achat is the date of the reception the engine joins to       *)
(* (tbl_receptions.date_achat through num_reception), NULL when the        *)
(* engine has no reception or the reception has no date.                   *)
(* A row of tbl_expeditions_moteurs is [n_moteur, date_validation].        *)
(***************************************************************************)
\* the referential tbl_types_moteurs
tbl_types_moteurs ==
    { [n_type_moteur |-> 1, constructeur_nom |-> Some(<<"R">>), energie |-> Some(<<"D">>),
       nom_type_moteur |-> Some(<<"K", "9", "K", "7">>), modele_vehicule |-> Some(<<"C">>),
       annee_debut |-> Some(<<"2", "0", "1", "0">>)],
      [n_type_moteur |-> 2, constructeur_nom |-> Some(<<"P">>), energie |-> NULL,
       nom_type_moteur |-> Some(<<"M", "9">>), modele_vehicule |-> NULL,
       annee_debut |-> NULL] }

Moteurs == { tbl_moteurs[i] : i \in DOMAIN tbl_moteurs }

\* the view v_moteurs_dispo: an engine is available when it has no expedition
v_moteurs_dispo ==
    { [m |-> m,
       est_disponible |->
           IF \E e \in tbl_expeditions_moteurs : e.n_moteur = m.n_moteur THEN 0 ELSE 1]
      : m \in Moteurs }

\* a variant of VentesJoin that forgets the 3 months filter on date_validation
MutVentesJoinAllDates ==
    { p \in tbl_expeditions_moteurs \X Moteurs :
        /\ p[2].n_moteur = p[1].n_moteur
        /\ ~IsNull(p[2].code_moteur)
        /\ SqlTrim(Val(p[2].code_moteur)) # <<>> }

\* WITH ventes: tbl_expeditions_moteurs JOIN tbl_moteurs, last 3 months,
\* grouped by (UPPER(code_moteur), n_type_moteur)
VentesJoin ==
    { p \in tbl_expeditions_moteurs \X Moteurs :
        /\ p[2].n_moteur = p[1].n_moteur
        /\ p[1].date_validation <= 3
        /\ ~IsNull(p[2].code_moteur)
        /\ SqlTrim(Val(p[2].code_moteur)) # <<>> }

VentesKey(p) == <<Upper(Val(p[2].code_moteur)), p[2].n_type_moteur>>

Ventes ==
    { [code_moteur |-> k[1], n_type_moteur |-> k[2],
       nb_vendus_3m |-> Cardinality({p \in VentesJoin : VentesKey(p) = k})]
      : k \in { VentesKey(p) : p \in VentesJoin } }

\* a variant of AvgWindow that compares with > instead of >=
MutAvgWindowStrict(G, w) ==
    LET In == { m \in G : Val(m.date_achat) < w }
        prix == [m \in In |-> Val(m.prix_achat_moteur)]
    IN  IF In = {} THEN NULL ELSE Some(<<SumOver(In, prix), Cardinality(In)>>)

\* AVG(CASE WHEN r.date_achat >= NOW() - INTERVAL 'w months' THEN prix END)
\* over a group G of engines: NULL, or the exact average as <<sum, count>>
AvgWindow(G, w) ==
    LET In == { m \in G : Val(m.date_achat) <= w }
        prix == [m \in In |-> Val(m.prix_achat_moteur)]
    IN  IF In = {} THEN NULL ELSE Some(<<SumOver(In, prix), Cardinality(In)>>)

\* WITH achats: engines with a purchase price and a purchase date,
\* grouped by UPPER(code_moteur)
AchatsRows ==
    { m \in Moteurs : ~IsNull(m.prix_achat_moteur) /\ ~IsNull(m.date_achat) }

Achats ==
    { [code_moteur |-> k,
       prix_moy_3m  |-> AvgWindow({m \in AchatsRows : UpperOpt(m.code_moteur) = k}, 3),
       prix_moy_6m  |-> AvgWindow({m \in AchatsRows : UpperOpt(m.code_moteur) = k}, 6),
       prix_moy_12m |-> AvgWindow({m \in AchatsRows : UpperOpt(m.code_moteur) = k}, 12)]
      : k \in { UpperOpt(m.code_moteur) : m \in AchatsRows } }

\* WITH stock_dispo: est_disponible = 1 AND (archiver IS NULL OR archiver = True),
\* grouped by UPPER(code_moteur)
StockDispoRows ==
    { v \in v_moteurs_dispo :
        /\ v.est_disponible = 1
        /\ (IsNull(v.m.archiver) \/ v.m.archiver = Some(TRUE)) }

StockDispo ==
    { [code_moteur |-> k,
       nb_stock_dispo |->
           Cardinality({v \in StockDispoRows : UpperOpt(v.m.code_moteur) = k})]
      : k \in { UpperOpt(v.m.code_moteur) : v \in StockDispoRows } }

\* WITH infos_types: SELECT DISTINCT over tbl_moteurs LEFT JOIN tbl_types_moteurs
InfosTypesOf(m) ==
    LET tms == { tm \in tbl_types_moteurs : tm.n_type_moteur = Val(m.n_type_moteur) }
        Row(name, brand, fuel, model, year) ==
            [n_type_moteur |-> Val(m.n_type_moteur),
             marque |-> Coalesce(brand, <<>>), energie |-> Coalesce(fuel, <<>>),
             type_nom |-> Coalesce(name, <<>>), type_modele |-> Coalesce(model, <<>>),
             type_annee |-> Coalesce(year, <<>>)]
    IN  IF tms = {} THEN { Row(NULL, NULL, NULL, NULL, NULL) }
        ELSE { Row(tm.nom_type_moteur, tm.constructeur_nom, tm.energie,
                   tm.modele_vehicule, tm.annee_debut) : tm \in tms }

InfosTypes ==
    UNION { InfosTypesOf(m) : m \in { x \in Moteurs : ~IsNull(x.n_type_moteur) } }

\* ROUND(avg, 2) of a nullable exact average, in hundredths
Round2(avg) ==
    IF IsNull(avg) THEN NULL ELSE Some(RoundHalfUp(100 * Val(avg)[1], Val(avg)[2]))

\* the rows a LEFT JOIN pairs with one left row: the matches, or one all-NULL row
LeftJoin(matches) == IF matches = {} THEN { NULL } ELSE { Some(x) : x \in matches }

\* the final SELECT ... FROM ventes v LEFT JOIN achats a LEFT JOIN stock_dispo s
\* LEFT JOIN infos_types i
SelectRow(v, a, s, i) ==
    [code_moteur |-> v.code_moteur,
     type_moteur |-> Left(IF IsNull(i) THEN <<>> ELSE Val(i).type_nom, 3),
     marque      |-> IF IsNull(i) THEN NULL ELSE Some(Val(i).marque),
     energie     |-> IF IsNull(i) THEN NULL ELSE Some(Val(i).energie),
     type_nom    |-> IF IsNull(i) THEN NULL ELSE Some(Val(i).type_nom),
     type_modele |-> IF IsNull(i) THEN NULL ELSE Some(Val(i).type_modele),
     type_annee  |-> IF IsNull(i) THEN NULL ELSE Some(Val(i).type_annee),
     nb_vendus_3m   |-> v.nb_vendus_3m,
     nb_stock_dispo |-> IF IsNull(s) THEN 0 ELSE Val(s).nb_stock_dispo,
     prix_moy_achat_3m  |-> IF IsNull(a) THEN NULL ELSE Round2(Val(a).prix_moy_3m),
     prix_moy_achat_6m  |-> IF IsNull(a) THEN NULL ELSE Round2(Val(a).prix_moy_6m),
     prix_moy_achat_12m |-> IF IsNull(a) THEN NULL ELSE Round2(Val(a).prix_moy_12m)]

SelectRows ==
    UNION { { SelectRow(v, a, s, i) :
                a \in LeftJoin({x \in Achats : x.code_moteur = Some(v.code_moteur)}),
                s \in LeftJoin({x \in StockDispo : x.code_moteur = Some(v.code_moteur)}),
                i \in LeftJoin({x \in InfosTypes : Some(x.n_type_moteur) = v.n_type_moteur}) }
            : v \in Ventes }

\* ORDER BY v.nb_vendus_3m DESC: every order of the rows the clause allows
\* (rows with equal nb_vendus_3m come in an order SQL leaves unspecified)
RECURSIVE OrderByVendusDesc(_)
OrderByVendusDesc(R) ==
    IF R = {} THEN { <<>> }
    ELSE UNION { { <<r>> \o t : t \in OrderByVendusDesc(R \ {r}) }
                 : r \in { x \in R : \A y \in R : x.nb_vendus_3m >= y.nb_vendus_3m } }

\* LIMIT :topn
Limit(s, n) == SubSeq(s, 1, Min(n, Len(s)))

\* the data frames sql_df(q, {"topn": top_n}) can return
SqlBesoins(top_n) == { Limit(s, top_n) : s \in OrderByVendusDesc(SelectRows) }

\* a variant of ScoreUrgence that truncates to 2 decimals instead of rounding
MutScoreTruncate(nb_vendus_3m, nb_stock_dispo) ==
    (100 * nb_vendus_3m) \div (nb_stock_dispo + 1)

\* a variant of ScoreUrgence with the ratio upside down
MutScoreInverted(nb_vendus_3m, nb_stock_dispo) ==
    IF nb_vendus_3m = 0 THEN 0
    ELSE RoundHalfEven(100 * (nb_stock_dispo + 1), nb_vendus_3m)

\* a variant of ScoreUrgence that rounds to a whole number, .round()
MutScoreRoundUnits(nb_vendus_3m, nb_stock_dispo) ==
    100 * RoundHalfEven(nb_vendus_3m, nb_stock_dispo + 1)

\* (nb_vendus_3m / (nb_stock_dispo + 1)).round(2), in hundredths
ScoreUrgence(nb_vendus_3m, nb_stock_dispo) ==
    RoundHalfEven(100 * nb_vendus_3m, nb_stock_dispo + 1)

\* df["score_urgence"] = ...
WithScore(df) ==
    [j \in DOMAIN df |->
        [code_moteur |-> df[j].code_moteur, type_moteur |-> df[j].type_moteur,
         marque |-> df[j].marque, energie |-> df[j].energie,
         type_nom |-> df[j].type_nom, type_modele |-> df[j].type_modele,
         type_annee |-> df[j].type_annee,
         nb_vendus_3m |-> df[j].nb_vendus_3m, nb_stock_dispo |-> df[j].nb_stock_dispo,
         prix_moy_achat_3m |-> df[j].prix_moy_achat_3m,
         prix_moy_achat_6m |-> df[j].prix_moy_achat_6m,
         prix_moy_achat_12m |-> df[j].prix_moy_achat_12m,
         score_urgence |-> ScoreUrgence(df[j].nb_vendus_3m, df[j].nb_stock_dispo)]]

\* the sort key order of sort_values(["score_urgence", "nb_vendus_3m"], ascending=False):
\* a is not after b
KeyGE(a, b) ==
    \/ a.score_urgence > b.score_urgence
    \/ a.score_urgence = b.score_urgence /\ a.nb_vendus_3m >= b.nb_vendus_3m

\* a variant of SortValues that drops the sorted frame (df.sort_values(...) without
\* assigning its result)
MutSortValuesDropped(df) == df

\* df.sort_values([...], ascending=False): a stable sort, rows with equal keys
\* keep the order they have in df
RECURSIVE SortValues(_)
SortValues(df) ==
    IF df = <<>> THEN <<>>
    ELSE LET n == Len(df)
             sorted == SortValues(SubSeq(df, 1, n - 1))
             p == Cardinality({ j \in DOMAIN sorted : KeyGE(sorted[j], df[n]) })
         IN  SubSeq(sorted, 1, p) \o <<df[n]>> \o SubSeq(sorted, p + 1, Len(sorted))

\* what get_besoins_moteurs does with the data frame the query returned
BesoinsOf(df) == IF df # <<>> THEN SortValues(WithScore(df)) ELSE df

(***************************************************************************)
(* Operations on the snapshot                                              *)
(***************************************************************************)
NeedFrame == UNCHANGED <<scoreVars, normVars, variantVars, matchVars, moverVars, appVars>>

\* the import loads one engine (import_excel_to_postgres appends the rows of
\* tbl_MOTEURS.xlsx); a result computed on the older snapshot is dropped
InsertMoteur(code, type, prix, age, arch) ==
    /\ Len(tbl_moteurs) < MaxMoteurs
    /\ tbl_moteurs' = Append(tbl_moteurs,
           [n_moteur |-> Len(tbl_moteurs) + 1, code_moteur |-> code,
            n_type_moteur |-> type, prix_achat_moteur |-> prix,
            date_achat |-> age, archiver |-> arch])
    /\ besoins' = <<>>
    /\ besoins_top_n' = 0
    /\ UNCHANGED tbl_expeditions_moteurs
    /\ NeedFrame

\* the import loads one expedition of an engine
InsertExpedition(n, age) ==
    /\ Cardinality(tbl_expeditions_moteurs) < MaxExpeditions
    /\ n \in DOMAIN tbl_moteurs
    /\ [n_moteur |-> n, date_validation |-> age] \notin tbl_expeditions_moteurs
    /\ tbl_expeditions_moteurs' =
           tbl_expeditions_moteurs \cup { [n_moteur |-> n, date_validation |-> age] }
    /\ besoins' = <<>>
    /\ besoins_top_n' = 0
    /\ UNCHANGED tbl_moteurs
    /\ NeedFrame

\* get_besoins_moteurs(top_n)
GetBesoinsMoteurs(top_n) ==
    /\ \E df \in SqlBesoins(top_n) : besoins' = BesoinsOf(df)
    /\ besoins_top_n' = top_n
    /\ UNCHANGED <<tbl_moteurs, tbl_expeditions_moteurs>>
    /\ NeedFrame

Init ==
    /\ tbl_moteurs = <<>>
    /\ tbl_expeditions_moteurs = {}
    /\ besoins = <<>>
    /\ besoins_top_n = 0
    /\ df_row = [nb_vendus_3m |-> 0, nb_stock_dispo |-> 0, score_urgence |-> NULL]
    /\ text_in = NULL
    /\ text_out = <<>>
    /\ variants_in = NULL
    /\ variants = {}
    /\ search_besoins = <<>>
    /\ search_text = NULL
    /\ search_scores = <<>>
    /\ search_result = <<>>
    /\ observations = EmptyBag
    /\ movers_args = NULL
    /\ movers = {}
    /\ plaque_besoins = <<>>
    /\ plaque_info = NULL
    /\ plaque_result = [raised |-> FALSE, df |-> <<>>]
    /\ casse_page = NULL
    /\ casse_total = 0
    /\ session_state = [s \in Sessions |-> NoSession]
    /\ rendered = [s \in Sessions |-> "login"]
    /\ login_by = [s \in Sessions |-> "none"]
    /\ call = [s \in Sessions |-> NULL]
    /\ last_call = [s \in Sessions |-> NULL]
    /\ breakers = <<>>
    /\ breakers_id_seq = 0
    /\ sql_df_cache = [n \in BreakerNames |-> NULL]
    /\ breaker_click_offers = <<>>
    /\ breaker_free_offers = <<>>
    /\ submission = NULL

(***************************************************************************)
(* Specifications of the need aggregator.  Each one loads snapshots that   *)
(* vary the columns its claims read, and keeps the other columns fixed.    *)
(***************************************************************************)
K9 == <<"K", "9">>
M9 == <<"M", "9">>

\* sales and stock counts: two codes, expeditions inside (1, 2) and outside (4)
\* the 3 months window
NextNeeds ==
    \/ \E code \in {K9, M9} : InsertMoteur(Some(code), Some(1), NULL, NULL, NULL)
    \/ \E n \in 1..MaxMoteurs, age \in {1, 2, 4} : InsertExpedition(n, age)
    \/ \E top_n \in 1..MaxTopN : GetBesoinsMoteurs(top_n)

SpecNeeds == Init /\ [][NextNeeds]_vars

\* code spelling and engine type: one code written in two cases, a blank and
\* a missing code, two engine types and a missing one
NextTypes ==
    \/ \E code \in {NULL, Some(<<" ">>), Some(<<"k", "9">>), Some(K9)},
          type \in {NULL, Some(1), Some(2)} :
           InsertMoteur(code, type, NULL, NULL, NULL)
    \/ \E n \in 1..MaxMoteurs : InsertExpedition(n, 1)
    \/ \E top_n \in 1..MaxTopN : GetBesoinsMoteurs(top_n)

SpecTypes == Init /\ [][NextTypes]_vars

\* the archiver flag of the engines in stock
NextStock ==
    \/ \E code \in {K9, M9}, arch \in {NULL, Some(TRUE), Some(FALSE)} :
           InsertMoteur(Some(code), Some(1), NULL, NULL, arch)
    \/ \E n \in 1..MaxMoteurs : InsertExpedition(n, 1)
    \/ \E top_n \in 1..MaxTopN : GetBesoinsMoteurs(top_n)

SpecStock == Init /\ [][NextStock]_vars

\* purchase prices and purchase dates on both sides of the 3, 6 and 12 months
\* windows, missing prices and dates, and a purchase of another code; the first
\* engine loaded is the one that gets sold
NextAchats ==
    \/ \E prix \in {100, 201}, age \in {3, 4, 10, 13} :
           InsertMoteur(Some(K9), Some(1), Some(prix), Some(age), NULL)
    \/ \E pa \in { <<NULL, Some(3)>>, <<Some(100), NULL>> } :
           InsertMoteur(Some(K9), Some(1), pa[1], pa[2], NULL)
    \/ InsertMoteur(Some(M9), Some(1), Some(201), Some(3), NULL)
    \/ InsertExpedition(1, 1)
    \/ \E top_n \in 1..MaxTopN : GetBesoinsMoteurs(top_n)

SpecAchats == Init /\ [][NextAchats]_vars

(***************************************************************************)
(* The urgency score of one data-frame row                                 *)
(***************************************************************************)
ScoreFrame == UNCHANGED <<needVars, normVars, variantVars, matchVars, moverVars, appVars>>

\* the query returned a row with these counts; its score_urgence is computed
ScoreRow(nb_vendus_3m, nb_stock_dispo) ==
    /\ df_row' = [nb_vendus_3m |-> nb_vendus_3m, nb_stock_dispo |-> nb_stock_dispo,
                  score_urgence |-> Some(ScoreUrgence(nb_vendus_3m, nb_stock_dispo))]
    /\ ScoreFrame

NextScore ==
    \E v \in 0..MaxVendus, k \in 0..MaxStock : ScoreRow(v, k)

SpecScore == Init /\ [][NextScore]_vars

(***************************************************************************)
(* The text normalizer                                                     *)
(***************************************************************************)
NormFrame == UNCHANGED <<needVars, scoreVars, variantVars, matchVars, moverVars, appVars>>

Alphabet == {"a", "K", " ", "\t", "-", "_", "."}

Texts == UNION { [1..n -> Alphabet] : n \in 0..MaxLen }

\* the text "  K9K   DIESEL " and its normal form "K9K DIESEL"
ExampleText ==
    <<" ", " ", "K", "9", "K", " ", " ", " ", "D", "I", "E", "S", "E", "L", " ">>

ExampleNorm == <<"K", "9", "K", " ", "D", "I", "E", "S", "E", "L">>

\* normalize_text(text) on a fresh input
NormalizeText(text) ==
    /\ text_in' = text
    /\ text_out' = normalize_text(text)
    /\ NormFrame

\* normalize_text applied to the result of the previous call
NormalizeAgain ==
    /\ ~IsNull(text_in)
    /\ text_in' = Some(text_out)
    /\ text_out' = normalize_text(Some(text_out))
    /\ NormFrame

NextNorm ==
    \/ \E text \in {NULL, Some(ExampleText)} \cup { Some(t) : t \in Texts } :
           NormalizeText(text)
    \/ NormalizeAgain

SpecNorm == Init /\ [][NextNorm]_vars

(***************************************************************************)
(* The synonym expander                                                    *)
(***************************************************************************)
\* the dict of get_motor_synonyms, in its order: <<key, values>>
get_motor_synonyms ==
    << <<<<"R", "E", "N", "A", "U", "L", "T">>,
         <<<<"R", "E", "N">>, <<"R", "E", "N", "O">>, <<"R">>>>>>,
       <<<<"P", "E", "U", "G", "E", "O", "T">>,
         <<<<"P", "E", "U">>, <<"P", "S", "A">>, <<"P">>>>>>,
       <<<<"C", "I", "T", "R", "O", "E", "N">>,
         <<<<"C", "I", "T">>, <<"C", "I", "T", "R", "O">>, <<"C">>>>>>,
       <<<<"V", "O", "L", "K", "S", "W", "A", "G", "E", "N">>,
         <<<<"V", "W">>, <<"V", "O", "L", "K", "S">>>>>>,
       <<<<"M", "E", "R", "C", "E", "D", "E", "S">>,
         <<<<"M", "E", "R", "C">>, <<"M", "B">>,
           <<"M", "E", "R", "C", "E", "D", "E", "S", "-", "B", "E", "N", "Z">>>>>>,
       <<<<"B", "M", "W">>,
         <<<<"B", "M">>>>>>,
       <<<<"A", "U", "D", "I">>,
         <<<<"A", "U", "D">>>>>>,
       <<<<"F", "O", "R", "D">>,
         <<<<"F">>>>>>,
       <<<<"O", "P", "E", "L">>,
         <<<<"O", "P">>>>>>,
       <<<<"F", "I", "A", "T">>,
         <<<<"F", "I", "A">>>>>>,
       <<<<"D", "I", "E", "S", "E", "L">>,
         <<<<"G", "A", "S", "O", "I", "L">>, <<"G", "A", "Z", "O", "L", "E">>,
           <<"H", "D", "I">>, <<"D", "C", "I">>, <<"T", "D", "I">>,
           <<"C", "D", "I">>, <<"T", "D", "C", "I">>, <<"D">>>>>>,
       <<<<"E", "S", "S", "E", "N", "C", "E">>,
         <<<<"E", "S", "S">>, <<"E">>, <<"T", "S", "I">>,
           <<"T", "F", "S", "I">>, <<"T", "C", "E">>>>>>,
       <<<<"E", "L", "E", "C", "T", "R", "I", "Q", "U", "E">>,
         <<<<"E", "L", "E", "C">>, <<"E", "V">>,
           <<"E", "L", "E", "C", "T", "R", "I", "C">>>>>>,
       <<<<"H", "Y", "B", "R", "I", "D", "E">>,
         <<<<"H", "Y", "B">>, <<"H", "Y", "B", "R", "I", "D">>>>>>,
       <<<<"T", "U", "R", "B", "O">>,
         <<<<"T">>, <<"T", "U", "R", "B">>>>>>,
       <<<<"I", "N", "J", "E", "C", "T", "I", "O", "N">>,
         <<<<"I", "N", "J">>, <<"I">>>>>>,
       <<<<"C", "O", "M", "M", "O", "N", " ", "R", "A", "I", "L">>,
         <<<<"C", "R">>, <<"C", "O", "M", "M", "O", "N", "R", "A", "I", "L">>>>>>,
       <<<<"B", "O", "I", "T", "E">>,
         <<<<"B", "V">>, <<"B", "A">>, <<"G", "E", "A", "R", "B", "O", "X">>>>>>,
       <<<<"A", "U", "T", "O", "M", "A", "T", "I", "Q", "U", "E">>,
         <<<<"A", "U", "T", "O">>, <<"A", "T">>, <<"B", "V", "A">>>>>>,
       <<<<"M", "A", "N", "U", "E", "L", "L", "E">>,
         <<<<"M", "A", "N">>, <<"M", "T">>, <<"B", "V", "M">>>>>> >>

\* Python's "needle in hay" on strings
Contains(needle, hay) ==
    \E i \in 0..(Len(hay) - Len(needle)) : SubSeq(hay, i + 1, i + Len(needle)) = needle

\* str.replace(old, new) for a non-empty old: the occurrences of old are
\* replaced from left to right, without overlap
RECURSIVE ReplaceAll(_, _, _)
ReplaceAll(s, old, new) ==
    IF Len(s) < Len(old) THEN s
    ELSE IF SubSeq(s, 1, Len(old)) = old
         THEN new \o ReplaceAll(SubSeq(s, Len(old) + 1, Len(s)), old, new)
         ELSE <<Head(s)>> \o ReplaceAll(Tail(s), old, new)

\* the concatenation of a sequence of sequences
RECURSIVE Concat(_)
Concat(ss) == IF ss = <<>> THEN <<>> ELSE Head(ss) \o Concat(Tail(ss))

\* a variant of AppendsFor that never replaces a canonical term by its synonyms
MutAppendsForValueOnly(norm, key, values, value) ==
    IF Contains(value, norm) THEN <<ReplaceAll(norm, value, key)>> ELSE <<>>

\* what one pass of the body of "for value in values" appends to variants
AppendsFor(norm, key, values, value) ==
    (IF Contains(value, norm) THEN <<ReplaceAll(norm, value, key)>> ELSE <<>>)
    \o (IF Contains(key, norm)
        THEN [j \in DOMAIN values |-> ReplaceAll(norm, key, values[j])]
        ELSE <<>>)

\* the list variants at the end of the two loops
VariantsList(norm) ==
    LET synonyms == get_motor_synonyms
    IN  <<norm>> \o
        Concat([k \in DOMAIN synonyms |->
                  Concat([i \in DOMAIN synonyms[k][2] |->
                            AppendsFor(norm, synonyms[k][1], synonyms[k][2],
                                       synonyms[k][2][i])])])

\* create_search_variants(text): list(set(variants)) is a list without
\* duplicates in an order Python leaves unspecified, kept here as the set
create_search_variants(text) ==
    IF IsNull(text) \/ Val(text) = <<>> THEN {}
    ELSE LET l == VariantsList(normalize_text(text))
         IN  { l[j] : j \in DOMAIN l }

VariantFrame == UNCHANGED <<needVars, scoreVars, normVars, matchVars, moverVars, appVars>>

QueryAlphabet == {"B", "M", "W", "D", "m", " ", "-"}

\* the texts the next call can get: none, the empty text, or the text of the
\* last call with one more character typed
QueryTexts(last) ==
    {NULL, Some(<<>>)}
    \cup { Some(Coalesce(last, <<>>) \o <<c>>) :
             c \in { x \in QueryAlphabet : Len(Coalesce(last, <<>>)) < MaxLen } }

\* create_search_variants(text)
CreateSearchVariants(text) ==
    /\ variants_in' = text
    /\ variants' = create_search_variants(text)
    /\ VariantFrame

NextVariants ==
    \E text \in QueryTexts(variants_in) : CreateSearchVariants(text)

SpecVariants == Init /\ [][NextVariants]_vars

(***************************************************************************)
(* The fuzzy matcher                                                       *)
(*                                                                         *)
(* A row of the need list is                                               *)
(*   [idx, code_moteur, marque, energie, type_nom, type_modele, type_annee]*)
(* where idx is its index label in the data frame; the five descriptive    *)
(* columns are NULL when the engine type of the row joins to no            *)
(* infos_types row, and a text, possibly empty, when it does.              *)
(***************************************************************************)
\* str(v): the text itself, "None" for None
Str(o) == IF IsNull(o) THEN <<"N", "o", "n", "e">> ELSE Val(o)

\* " ".join(parts)
RECURSIVE Join(_)
Join(parts) ==
    IF parts = <<>> THEN <<>>
    ELSE IF Len(parts) = 1 THEN parts[1]
    ELSE parts[1] \o <<" ">> \o Join(Tail(parts))

\* str.split(): the maximal runs of characters that are not whitespace
RECURSIVE Split(_)
Split(s) ==
    IF s = <<>> THEN <<>>
    ELSE IF IsSpace(Head(s)) THEN Split(Tail(s))
    ELSE LET ws == { i \in DOMAIN s : IsSpace(s[i]) }
             n == IF ws = {} THEN Len(s) + 1
                  ELSE CHOOSE i \in ws : \A j \in ws : i <= j
         IN  <<SubSeq(s, 1, n - 1)>> \o Split(SubSeq(s, n, Len(s)))

\* motor_text of a row
MotorText(row) ==
    Join(<<row.code_moteur, Str(row.marque), Str(row.energie), Str(row.type_nom),
           Str(row.type_modele), Str(row.type_annee)>>)

\* a variant of MatchScore without the bonus of the code
MutMatchScoreNoCodeBonus(search_norm, search_variants, row) ==
    LET motor_norm == normalize_text(Some(MotorText(row)))
        search_words == Split(search_norm)
        motor_words == Split(motor_norm)
    IN  (IF Contains(search_norm, motor_norm) THEN 100 ELSE 0)
        + 50 * Cardinality({ v \in search_variants : v # <<>> /\ Contains(v, motor_norm) })
        + 10 * Cardinality({ p \in (DOMAIN search_words) \X (DOMAIN motor_words) :
                               /\ Len(search_words[p[1]]) >= 2
                               /\ \/ Contains(search_words[p[1]], motor_words[p[2]])
                                  \/ Contains(motor_words[p[2]], search_words[p[1]]) })

\* the score the loop body of smart_match_motor gives to a row
MatchScore(search_norm, search_variants, row) ==
    LET motor_norm == normalize_text(Some(MotorText(row)))
        search_words == Split(search_norm)
        motor_words == Split(motor_norm)
    IN  (IF Contains(search_norm, motor_norm) THEN 100 ELSE 0)
        + 50 * Cardinality({ v \in search_variants : v # <<>> /\ Contains(v, motor_norm) })
        + 10 * Cardinality({ p \in (DOMAIN search_words) \X (DOMAIN motor_words) :
                               /\ Len(search_words[p[1]]) >= 2
                               /\ \/ Contains(search_words[p[1]], motor_words[p[2]])
                                  \/ Contains(motor_words[p[2]], search_words[p[1]]) })
        + (IF Contains(search_norm, Upper(row.code_moteur)) THEN 200 ELSE 0)

\* a variant of IsScored that keeps the rows with score 0
MutIsScoredNonNegative(p) == p[2] >= 0

\* the filter "if score > 0" on a pair <<idx, score>>
IsScored(p) == p[2] > 0

\* a variant of SortScored that puts a pair before the pairs of equal score
\* (sorting in ascending order and reversing the list)
RECURSIVE MutSortScoredReversed(_)
MutSortScoredReversed(scored) ==
    IF scored = <<>> THEN <<>>
    ELSE LET n == Len(scored)
             sorted == MutSortScoredReversed(SubSeq(scored, 1, n - 1))
             p == Cardinality({ j \in DOMAIN sorted : sorted[j][2] > scored[n][2] })
         IN  SubSeq(sorted, 1, p) \o <<scored[n]>> \o SubSeq(sorted, p + 1, Len(sorted))

\* scored.sort(key=lambda x: x[1], reverse=True): list.sort is stable, and
\* with reverse=True the pairs of equal score keep their order
RECURSIVE SortScored(_)
SortScored(scored) ==
    IF scored = <<>> THEN <<>>
    ELSE LET n == Len(scored)
             sorted == SortScored(SubSeq(scored, 1, n - 1))
             p == Cardinality({ j \in DOMAIN sorted : sorted[j][2] >= scored[n][2] })
         IN  SubSeq(sorted, 1, p) \o <<scored[n]>> \o SubSeq(sorted, p + 1, Len(sorted))

\* besoins.loc[idx]: the row with index label idx
\* a variant of Loc that returns the first row for every label
MutLocFirstRow(df, idx) == df[1]

Loc(df, idx) == df[CHOOSE j \in DOMAIN df : df[j].idx = idx]

\* the list scores and the returned data frame of a call that goes through
\* the loop
ScoreAndRank(text, df) ==
    LET search_norm == normalize_text(text)
        search_variants == create_search_variants(text)
        scores == [j \in DOMAIN df |->
                     <<df[j].idx, MatchScore(search_norm, search_variants, df[j])>>]
        scored == SortScored(SelectSeq(scores, IsScored))
    IN  [scores |-> scores,
         result |-> IF scored # <<>>
                    THEN [j \in DOMAIN scored |-> Loc(df, scored[j][1])]
                    ELSE <<>>]

\* a variant of smart_match_motor that returns an empty data frame when there
\* is no text or no row
MutSmartMatchEmptyOnNoInput(text, df) ==
    IF IsNull(text) \/ Val(text) = <<>> \/ df = <<>>
    THEN [scores |-> <<>>, result |-> <<>>]
    ELSE ScoreAndRank(text, df)

\* smart_match_motor(search_text, besoins): the list scores it builds and the
\* data frame it returns
smart_match_motor(text, df) ==
    IF IsNull(text) \/ Val(text) = <<>> \/ df = <<>>
    THEN [scores |-> <<>>, result |-> df]
    ELSE ScoreAndRank(text, df)

MatchFrame == UNCHANGED <<needVars, scoreVars, normVars, variantVars, moverVars, appVars>>

K9K == <<"K", "9", "K">>

\* w w ... w, n times
RECURSIVE RepeatWord(_, _)
RepeatWord(w, n) == IF n <= 1 THEN w ELSE w \o <<" ">> \o RepeatWord(w, n - 1)

\* the rows the need list is made of: a code with empty descriptive columns,
\* a row described by the first engine type, a row without engine type, a
\* row whose descriptive columns hold many short words, a row of another
\* brand and a row with a fuel
NeedRows ==
    { [code_moteur |-> K9K, marque |-> Some(<<>>), energie |-> Some(<<>>),
       type_nom |-> Some(<<>>), type_modele |-> Some(<<>>), type_annee |-> Some(<<>>)],
      [code_moteur |-> M9, marque |-> Some(<<"R">>), energie |-> Some(<<"D">>),
       type_nom |-> Some(<<"K", "9", "K", "7">>), type_modele |-> Some(<<"C">>),
       type_annee |-> Some(<<"2", "0", "1", "0">>)],
      [code_moteur |-> M9, marque |-> NULL, energie |-> NULL,
       type_nom |-> NULL, type_modele |-> NULL, type_annee |-> NULL],
      [code_moteur |-> M9, marque |-> Some(K9),
       energie |-> Some(RepeatWord(<<"K">>, MaxWords)),
       type_nom |-> Some(RepeatWord(<<"K">>, MaxWords)),
       type_modele |-> Some(RepeatWord(<<"K">>, MaxWords)),
       type_annee |-> Some(RepeatWord(<<"K">>, MaxWords))],
      [code_moteur |-> <<"F", "4">>, marque |-> Some(<<"B", "M", "W">>),
       energie |-> Some(<<>>), type_nom |-> Some(<<>>), type_modele |-> Some(<<>>),
       type_annee |-> Some(<<>>)],
      [code_moteur |-> K9, marque |-> Some(<<>>),
       energie |-> Some(<<"D", "I", "E", "S", "E", "L">>), type_nom |-> Some(<<>>),
       type_modele |-> Some(<<>>), type_annee |-> Some(<<>>)] }

\* what the breaker types in the search box, and no text at all
Queries ==
    { NULL, Some(<<>>), Some(<<" ">>), Some(<<"k", "9">>), Some(<<"K">>),
      Some(<<"B", "M">>), Some(<<"O", "N", "E">>), Some(<<"K", "9", " ", "D">>) }

\* render_casse loads the need list; one more row comes with its index label,
\* and the list is shown as it is until a search is made
LoadBesoins(row) ==
    /\ Len(search_besoins) < MaxCandidates
    /\ search_besoins' = Append(search_besoins,
           [idx |-> Len(search_besoins) + 1, code_moteur |-> row.code_moteur,
            marque |-> row.marque, energie |-> row.energie, type_nom |-> row.type_nom,
            type_modele |-> row.type_modele, type_annee |-> row.type_annee])
    /\ search_text' = NULL
    /\ search_scores' = <<>>
    /\ search_result' = search_besoins'
    /\ MatchFrame

\* smart_match_motor(text, besoins) on the need list
SmartMatchMotor(text) ==
    /\ search_text' = text
    /\ \E r \in { smart_match_motor(text, search_besoins) } :
           search_scores' = r.scores /\ search_result' = r.result
    /\ UNCHANGED search_besoins
    /\ MatchFrame

NextMatch ==
    \/ \E row \in NeedRows : LoadBesoins(row)
    \/ \E text \in Queries : SmartMatchMotor(text)

SpecMatch == Init /\ [][NextMatch]_vars

(***************************************************************************)
(* The price-movement detector                                             *)
(*                                                                         *)
(* A priced row is [kind, code_moteur, dt, prix]: for kind "achat" a row   *)
(* of tbl_MOTEURS JOIN tbl_RECEPTIONS with its date_achat and its          *)
(* prix_achat_moteur, for kind "vente" a row of tbl_EXPEDITIONS_moteurs    *)
(* JOIN tbl_MOTEURS with its date_validation and its prix_vente_moteur.    *)
(* The same row can be there several times: observations is a bag.         *)
(***************************************************************************)
\* ROUND(x::numeric, 2) of n/d (d > 0) in hundredths: ties away from zero
RoundSigned(n, d) == IF n >= 0 THEN RoundHalfUp(n, d) ELSE 0 - RoundHalfUp(0 - n, d)

\* a variant of Base that keeps the rows with price 0
MutBaseZeroPrice(kind, lb) ==
    { r \in BagToSet(observations) :
        /\ r.kind = kind
        /\ r.dt <= lb
        /\ ~IsNull(r.prix) }

\* WITH base: the rows of the kind inside the lookback with a price > 0
Base(kind, lb) ==
    { r \in BagToSet(observations) :
        /\ r.kind = kind
        /\ r.dt <= lb
        /\ ~IsNull(r.prix)
        /\ Val(r.prix) > 0 }

\* the number of rows of the bag that a set of distinct rows stands for
CountOf(S) == SumOver(S, [r \in S |-> CopiesIn(r, observations)])

\* AVG(prix) over these rows: NULL, or the exact average as <<sum, count>>
AvgOf(S) ==
    IF S = {} THEN NULL
    ELSE Some(<<SumOver(S, [r \in S |-> Val(r.prix) * CopiesIn(r, observations)]),
                CountOf(S)>>)

\* CASE WHEN dt >= NOW() - INTERVAL 'w months'
RecentRows(G, w) == { r \in G : r.dt <= w }

\* a variant of PrevRows that takes all the history before the recent window
MutPrevRowsAllHistory(G, w) == { r \in G : r.dt > w }

\* CASE WHEN dt < NOW() - INTERVAL 'w months' AND dt >= NOW() - INTERVAL '2w months'
PrevRows(G, w) == { r \in G : r.dt > w /\ r.dt <= w * 2 }

\* WITH agg: one row per UPPER(code_moteur) of base
Agg(kind, w, lb) ==
    { [code_moteur |-> c,
       avg_recent |-> AvgOf(RecentRows({r \in Base(kind, lb) : Upper(r.code_moteur) = c}, w)),
       avg_prev   |-> AvgOf(PrevRows({r \in Base(kind, lb) : Upper(r.code_moteur) = c}, w)),
       n_recent   |-> CountOf(RecentRows({r \in Base(kind, lb) : Upper(r.code_moteur) = c}, w)),
       n_prev     |-> CountOf(PrevRows({r \in Base(kind, lb) : Upper(r.code_moteur) = c}, w))]
      : c \in { Upper(r.code_moteur) : r \in Base(kind, lb) } }

\* a variant of Delta that subtracts the rounded averages
MutDeltaOfRounded(avg_recent, avg_prev) ==
    Val(Round2(avg_recent)) - Val(Round2(avg_prev))

\* ROUND((avg_recent - avg_prev)::numeric, 2) of two averages that are not NULL
Delta(avg_recent, avg_prev) ==
    RoundSigned(100 * (Val(avg_recent)[1] * Val(avg_prev)[2]
                         - Val(avg_prev)[1] * Val(avg_recent)[2]),
                Val(avg_recent)[2] * Val(avg_prev)[2])

\* a variant of Pct that divides the rounded delta by the rounded avg_prev
MutPctOfRounded(avg_recent, avg_prev) ==
    IF IsNull(avg_prev) \/ Val(avg_prev)[1] = 0 THEN NULL
    ELSE Some(RoundSigned(10000 * MutDeltaOfRounded(avg_recent, avg_prev),
                          Val(Round2(avg_prev))))

\* CASE WHEN avg_prev IS NULL OR avg_prev = 0 THEN NULL
\* ELSE ROUND(((avg_recent - avg_prev) / avg_prev * 100.0)::numeric, 2) END;
\* the arithmetic of a NULL avg_recent gives NULL
Pct(avg_recent, avg_prev) ==
    IF IsNull(avg_prev) \/ Val(avg_prev)[1] = 0 THEN NULL
    ELSE IF IsNull(avg_recent) THEN NULL
    ELSE Some(RoundSigned(10000 * (Val(avg_recent)[1] * Val(avg_prev)[2]
                                     - Val(avg_prev)[1] * Val(avg_recent)[2]),
                          Val(avg_prev)[1] * Val(avg_recent)[2]))

\* the SELECT list over a row of agg; money and pct in hundredths
SelectMover(a) ==
    [code_moteur |-> a.code_moteur,
     n_recent |-> a.n_recent,
     n_prev |-> a.n_prev,
     avg_prev |-> Round2(a.avg_prev),
     avg_recent |-> Round2(a.avg_recent),
     delta |-> IF IsNull(a.avg_recent) \/ IsNull(a.avg_prev) THEN NULL
               ELSE Some(Delta(a.avg_recent, a.avg_prev)),
     pct |-> Pct(a.avg_recent, a.avg_prev)]

\* a variant of MoverFilter that forgets the previous window
MutMoverFilterRecentOnly(a, minc) ==
    a.n_recent >= minc /\ ~IsNull(a.avg_recent) /\ ~IsNull(a.avg_prev)

\* WHERE n_recent >= :minc AND n_prev >= :minc
\*   AND avg_recent IS NOT NULL AND avg_prev IS NOT NULL
MoverFilter(a, minc) ==
    a.n_recent >= minc /\ a.n_prev >= minc /\ ~IsNull(a.avg_recent) /\ ~IsNull(a.avg_prev)

\* get_price_movers(kind, window_months, lookback_months, min_count): the
\* records of the data frame, which come in no specified order
get_price_movers(kind, window_months, lookback_months, min_count) ==
    { SelectMover(a) :
        a \in { x \in Agg(kind, window_months, lookback_months) :
                  MoverFilter(x, min_count) } }

MoverFrame == UNCHANGED <<needVars, scoreVars, normVars, variantVars, matchVars, appVars>>

Max(a, b) == IF a >= b THEN a ELSE b

\* the import loads one more priced row; the records of the last call are
\* those of the older snapshot and are dropped
InsertObservation(row) ==
    /\ BagCardinality(observations) < MaxObs
    /\ observations' = observations (+) SetToBag({row})
    /\ movers_args' = NULL
    /\ movers' = {}
    /\ MoverFrame

\* the price variations tab calls get_price_movers(kind, window_months=window,
\* lookback_months=max(12, window * 4), min_count=minc)
GetPriceMovers(kind, window, minc) ==
    /\ movers_args' = Some([kind |-> kind, window_months |-> window,
                            lookback_months |-> Max(12, window * 4), min_count |-> minc])
    /\ movers' = get_price_movers(kind, window, Max(12, window * 4), minc)
    /\ UNCHANGED observations
    /\ MoverFrame

Kinds == {"achat", "vente"}

\* rows on both sides of the windows of 3 and 6 months, each age with its own
\* price, and a row without price or with price 0
WindowRows ==
    { [kind |-> k, code_moteur |-> K9, dt |-> a, prix |-> Some(100 + a)]
        : k \in Kinds, a \in {3, 6, 7, 13} }
    \cup { [kind |-> "achat", code_moteur |-> K9, dt |-> 3, prix |-> NULL],
           [kind |-> "vente", code_moteur |-> K9, dt |-> 3, prix |-> Some(0)] }

NextWindows ==
    \/ \E row \in WindowRows : InsertObservation(row)
    \/ \E kind \in Kinds, window \in {3, 6}, minc \in {1, 2} :
           GetPriceMovers(kind, window, minc)

SpecWindows == Init /\ [][NextWindows]_vars

\* purchases of two codes, recent (3 months) and previous (4 months), at
\* prices whose averages have more than 2 decimals
PriceRows ==
    { [kind |-> "achat", code_moteur |-> K9, dt |-> a, prix |-> Some(p)]
        : a \in {3, 4}, p \in {100, 101, 120} }
    \cup { [kind |-> "achat", code_moteur |-> <<"m", "9">>, dt |-> a, prix |-> Some(100)]
             : a \in {3, 4} }

NextPrices ==
    \/ \E row \in PriceRows : InsertObservation(row)
    \/ \E kind \in Kinds, minc \in {1, 2} : GetPriceMovers(kind, 3, minc)

SpecPrices == Init /\ [][NextPrices]_vars

(***************************************************************************)
(* The plate filter of the breaker page                                    *)
(***************************************************************************)
\* series.str.upper().str.contains(value, na=False) for one cell; value holds
\* letters only, so the pattern matches as a plain substring
ColumnContains(col, value) ==
    ~IsNull(col) /\ Contains(value, Upper(Val(col)))

\* filter_besoins_by_plaque(besoins, plaque_info): the frame it returns, or
\* raised when .upper() is called on a value that is None
filter_besoins_by_plaque(df, info) ==
    LET code == Upper(Val(info.code_moteur))
        exact_match == SelectSeq(df, LAMBDA r : Upper(r.code_moteur) = code)
        marque == Upper(Val(info.marque))
        energie == Upper(Val(info.energie))
        by_marque == IF marque # <<>>
                     THEN SelectSeq(df, LAMBDA r : ColumnContains(r.marque, marque))
                     ELSE df
        filtered == IF energie # <<>>
                    THEN SelectSeq(by_marque, LAMBDA r : ColumnContains(r.energie, energie))
                    ELSE by_marque
    IN  IF df = <<>> THEN [raised |-> FALSE, df |-> df]
        ELSE IF IsNull(info.code_moteur) THEN [raised |-> TRUE, df |-> <<>>]
        ELSE IF code # <<>> /\ exact_match # <<>>
             THEN [raised |-> FALSE, df |-> exact_match]
        ELSE IF IsNull(info.marque) \/ IsNull(info.energie)
             THEN [raised |-> TRUE, df |-> <<>>]
        ELSE [raised |-> FALSE, df |-> IF filtered # <<>> THEN filtered ELSE df]

PlaqueFrame == UNCHANGED <<needVars, scoreVars, normVars, variantVars, matchVars, moverVars, pageVars, sessionVars, tableVars>>

\* the vehicle rows search_plaque finds: each column is a text or NULL
PlaqueInfos ==
    [code_moteur : {NULL, Some(<<>>), Some(<<"k", "9", "k">>), Some(<<"F", "4">>), Some(<<"X">>)},
     marque : {NULL, Some(<<>>), Some(<<"r">>), Some(<<"B", "M">>)},
     energie : {NULL, Some(<<>>), Some(<<"D">>)}]

\* render_casse loads the need list; one more row comes with its index label
LoadPlaqueBesoins(row) ==
    /\ Len(plaque_besoins) < MaxCandidates
    /\ plaque_besoins' = Append(plaque_besoins,
           [idx |-> Len(plaque_besoins) + 1, code_moteur |-> row.code_moteur,
            marque |-> row.marque, energie |-> row.energie, type_nom |-> row.type_nom,
            type_modele |-> row.type_modele, type_annee |-> row.type_annee])
    /\ plaque_info' = NULL
    /\ plaque_result' = [raised |-> FALSE, df |-> plaque_besoins']
    /\ PlaqueFrame

\* render_casse with a plate that was found: the need list goes through
\* filter_besoins_by_plaque
FilterBesoinsByPlaque(info) ==
    /\ plaque_besoins # <<>>
    /\ plaque_info' = Some(info)
    /\ plaque_result' = filter_besoins_by_plaque(plaque_besoins, info)
    /\ UNCHANGED plaque_besoins
    /\ PlaqueFrame

NextPlaque ==
    \/ \E row \in NeedRows : LoadPlaqueBesoins(row)
    \/ \E info \in PlaqueInfos : FilterBesoinsByPlaque(info)

SpecPlaque == Init /\ [][NextPlaque]_vars

(***************************************************************************)
(* The pages of the need list on the breaker page                          *)
(***************************************************************************)
PAGE_SIZE == 20

\* pages = max(1, (total + PAGE_SIZE - 1) // PAGE_SIZE)
Pages(total) == Max(1, (total + PAGE_SIZE - 1) \div PAGE_SIZE)

\* session_state["casse_page"] once the pagination block has set the key
PageOrFirst == IF IsNull(casse_page) THEN 1 ELSE Val(casse_page)

PageFrame == UNCHANGED <<needVars, scoreVars, normVars, variantVars, matchVars, moverVars, plaqueVars, sessionVars, tableVars>>

\* a rerun after the search text, the plate or the number of needs changed:
\* the need list now has total rows; with no row render_casse returns before
\* the pagination block, else the block sets the key if it is missing
Rerun(total) ==
    /\ casse_total' = total
    /\ casse_page' = IF total = 0 THEN casse_page ELSE Some(PageOrFirst)
    /\ PageFrame

\* a rerun on a click of the previous-page button, which is enabled when
\* casse_page > 1
ClickPrevious ==
    /\ casse_total > 0
    /\ PageOrFirst > 1
    /\ casse_page' = Some(PageOrFirst - 1)
    /\ UNCHANGED casse_total
    /\ PageFrame

\* a rerun on a click of the next-page button, which is enabled when
\* casse_page < pages
ClickNext ==
    /\ casse_total > 0
    /\ PageOrFirst < Pages(casse_total)
    /\ casse_page' = Some(PageOrFirst + 1)
    /\ UNCHANGED casse_total
    /\ PageFrame

NextPages ==
    \/ \E total \in 0..MaxTotal : Rerun(total)
    \/ ClickPrevious
    \/ ClickNext

SpecPages == Init /\ [][NextPages]_vars

(***************************************************************************)
(* Login, navigation and the routing of main                               *)
(***************************************************************************)
\* st.secrets: the admin credentials and the access code of the breakers
ADMIN_USER == <<"u">>
ADMIN_PASSWORD == <<"p">>
BREAKER_ACCESS_CODE == <<"c">>

\* the pages the buttons of the admin home and sidebar set
AdminPages == {"home", "ventes", "besoins", "analyse", "mise_a_jour_prix"}
PageNames == AdminPages \cup {"casse"}

\* a variant of main that routes on the page alone
MutMainRoutesOnPage(ss) ==
    IF ~ss.authenticated THEN "login"
    ELSE IF IsNull(ss.page) THEN "home"
    ELSE IF Val(ss.page) \in PageNames THEN Val(ss.page)
    ELSE "home"

\* main: what one run shows for a session state.  check_password stops the
\* run on the login form; mode "casse" goes to render_casse and returns;
\* else the page of get_page() is rendered, "home" when it is unknown
main(ss) ==
    IF ~ss.authenticated THEN "login"
    ELSE IF ss.mode = Some("casse") THEN "casse"
    ELSE IF IsNull(ss.page) THEN "home"
    ELSE IF Val(ss.page) \in PageNames THEN Val(ss.page)
    ELSE "home"

SessionFrame ==
    UNCHANGED <<needVars, scoreVars, normVars, variantVars, matchVars, moverVars,
                plaqueVars, pageVars>>

\* no get_or_create_breaker call of the session is between its two statements
Idle(s) == IsNull(call[s])

\* the run of main after the session state of s became ss
Show(s, ss) ==
    /\ session_state' = [session_state EXCEPT ![s] = ss]
    /\ rendered' = [rendered EXCEPT ![s] = main(ss)]

\* check_password, button "Se connecter (Admin)"
LoginAdmin(s, user, pwd) ==
    /\ Idle(s)
    /\ ~session_state[s].authenticated
    /\ IF user = ADMIN_USER /\ pwd = ADMIN_PASSWORD
       THEN /\ Show(s, [session_state[s] EXCEPT !.authenticated = TRUE,
                           !.mode = Some("admin"), !.page = Some("home")])
            /\ login_by' = [login_by EXCEPT ![s] = "admin credentials"]
       ELSE /\ Show(s, session_state[s])
            /\ UNCHANGED login_by
    /\ UNCHANGED <<call, last_call, tableVars>>
    /\ SessionFrame

\* check_password, button "Accès Casse"
LoginCasse(s) ==
    /\ Idle(s)
    /\ ~session_state[s].authenticated
    /\ Show(s, [session_state[s] EXCEPT !.authenticated = TRUE,
                   !.mode = Some("casse"), !.page = Some("casse")])
    /\ login_by' = [login_by EXCEPT ![s] = "casse button"]
    /\ UNCHANGED <<call, last_call, tableVars>>
    /\ SessionFrame

\* a button of the admin home or sidebar: set_page(name) and rerun
SetPage(s, name) ==
    /\ Idle(s)
    /\ rendered[s] \in PageNames
    /\ session_state[s].mode # Some("casse")
    /\ Show(s, [session_state[s] EXCEPT !.page = Some(name)])
    /\ UNCHANGED <<login_by, call, last_call, tableVars>>
    /\ SessionFrame

\* logout_button of the admin sidebar: session_state.clear() and rerun
Logout(s) ==
    /\ Idle(s)
    /\ rendered[s] \in PageNames
    /\ session_state[s].mode # Some("casse")
    /\ Show(s, NoSession)
    /\ login_by' = [login_by EXCEPT ![s] = "none"]
    /\ last_call' = [last_call EXCEPT ![s] = NULL]
    /\ UNCHANGED <<call, tableVars>>
    /\ SessionFrame

\* the browser page is reloaded: the session starts again with an empty state
ResetSession(s) ==
    /\ Idle(s)
    /\ session_state[s] # NoSession
    /\ Show(s, NoSession)
    /\ login_by' = [login_by EXCEPT ![s] = "none"]
    /\ last_call' = [last_call EXCEPT ![s] = NULL]
    /\ UNCHANGED <<call, tableVars>>
    /\ SessionFrame

(***************************************************************************)
(* Breaker identity                                                        *)
(***************************************************************************)
\* SELECT id FROM public.breakers WHERE name = :name LIMIT 1
SelectBreaker(name) ==
    LET found == SelectSeq(breakers, LAMBDA b : b.name = name)
    IN  IF found = <<>> THEN <<>> ELSE <<found[1].id>>

\* sql_df on the breaker SELECT: st.cache_data returns the data frame of the
\* entry of the same query and parameters while it is not older than the ttl
sql_df(name) ==
    IF name \in DOMAIN sql_df_cache /\ ~IsNull(sql_df_cache[name])
    THEN Val(sql_df_cache[name])
    ELSE SelectBreaker(name)

\* INSERT INTO public.breakers(name) VALUES (:name) RETURNING id: the id is
\* drawn from the sequence, then name UNIQUE is checked
InsertRaises(name) == \E j \in DOMAIN breakers : breakers[j].name = name

\* the breaker login form of the session is on screen
OnLoginForm(s) ==
    /\ Idle(s)
    /\ rendered[s] = "casse"
    /\ ~session_state[s].breaker_ok

\* the offers interface of the session is on screen
LoggedIn(s) ==
    /\ Idle(s)
    /\ rendered[s] = "casse"
    /\ session_state[s].breaker_ok
    /\ ~IsNull(session_state[s].breaker_id)

\* render_casse, button "Accéder à l'interface", up to the SELECT of
\* get_or_create_breaker
BreakerLogin(s, breaker_name, code) ==
    LET name == Strip(breaker_name)
        df == sql_df(name)
    IN  /\ OnLoginForm(s)
        /\ breakers_id_seq + Cardinality({t \in Sessions : ~Idle(t)}) < MaxIds
        /\ IF Strip(code) # BREAKER_ACCESS_CODE \/ name = <<>>
           THEN UNCHANGED <<session_state, call, last_call, sql_df_cache>>
           ELSE /\ sql_df_cache' = [sql_df_cache EXCEPT ![name] = Some(df)]
                /\ IF df # <<>>
                   THEN /\ session_state' =
                              [session_state EXCEPT ![s].breaker_ok = TRUE,
                                                    ![s].breaker_id = Some(df[1])]
                        /\ last_call' = [last_call EXCEPT ![s] =
                              Some([name |-> breaker_name, code |-> code, raised |-> FALSE,
                                    id |-> Some(df[1])])]
                        /\ UNCHANGED call
                   ELSE /\ session_state' = [session_state EXCEPT ![s].breaker_ok = TRUE]
                        /\ call' = [call EXCEPT ![s] = Some([name |-> breaker_name, code |-> code])]
                        /\ UNCHANGED last_call
        /\ UNCHANGED <<rendered, login_by, breakers, breakers_id_seq,
                       breaker_click_offers, breaker_free_offers, submission>>
        /\ SessionFrame

\* get_or_create_breaker after an empty SELECT: the INSERT, then the rest of
\* the handler
InsertBreaker(s) ==
    LET name == Strip(Val(call[s]).name)
        id == breakers_id_seq + 1
    IN  /\ ~Idle(s)
        /\ breakers_id_seq' = id
        /\ call' = [call EXCEPT ![s] = NULL]
        /\ IF InsertRaises(name)
           THEN /\ last_call' = [last_call EXCEPT ![s] =
                      Some([name |-> Val(call[s]).name, code |-> Val(call[s]).code,
                            raised |-> TRUE, id |-> NULL])]
                /\ UNCHANGED <<breakers, session_state>>
           ELSE /\ breakers' = Append(breakers, [id |-> id, name |-> name])
                /\ session_state' = [session_state EXCEPT ![s].breaker_id = Some(id)]
                /\ last_call' = [last_call EXCEPT ![s] =
                      Some([name |-> Val(call[s]).name, code |-> Val(call[s]).code,
                            raised |-> FALSE, id |-> Some(id)])]
        /\ UNCHANGED <<rendered, login_by, sql_df_cache,
                       breaker_click_offers, breaker_free_offers, submission>>
        /\ SessionFrame

\* render_casse with breaker_ok set and no breaker_id: back to the login form
RerunCasse(s) ==
    /\ Idle(s)
    /\ rendered[s] = "casse"
    /\ session_state[s].breaker_ok
    /\ IsNull(session_state[s].breaker_id)
    /\ session_state' = [session_state EXCEPT ![s].breaker_ok = FALSE]
    /\ UNCHANGED <<rendered, login_by, call, last_call, tableVars>>
    /\ SessionFrame

\* a variant of the "Quitter" button that keeps the session of the breaker
MutQuitterKeepsSession(ss) == ss

\* the session state after the button "Quitter"
QuitterState(ss) == [ss EXCEPT !.breaker_ok = FALSE, !.breaker_id = NULL]

\* render_casse, button "Quitter"
Quitter(s) ==
    /\ LoggedIn(s)
    /\ session_state' = [session_state EXCEPT ![s] = QuitterState(session_state[s])]
    /\ last_call' = [last_call EXCEPT ![s] = NULL]
    /\ UNCHANGED <<rendered, login_by, call, tableVars>>
    /\ SessionFrame

\* the ttl of a cache entry of sql_df (300 s) is over
CacheExpire(name) ==
    /\ ~IsNull(sql_df_cache[name])
    /\ sql_df_cache' = [sql_df_cache EXCEPT ![name] = NULL]
    /\ UNCHANGED <<sessionVars, breakers, breakers_id_seq,
                   breaker_click_offers, breaker_free_offers, submission>>
    /\ SessionFrame

(***************************************************************************)
(* Offers                                                                  *)
(***************************************************************************)
\* what is typed in a number box: a number, or a text that is no number
RawNumber(v) == [numeric |-> TRUE, v |-> v]
NotANumber == [numeric |-> FALSE, v |-> 0]

\* value= of the price box of a need without average price and of the
\* alternative
DefaultPrix == 100

\* st.number_input(min_value=, value=): the values the script can get after
\* raw was typed.  A number of at least min_value is delivered as it is; the
\* widget delivers nothing else than a number of at least min_value, so for
\* any other entry the script gets the value the box had or its minimum
NumberInput(raw, min_value, value) ==
    IF raw.numeric /\ raw.v >= min_value THEN {raw.v} ELSE {value, min_value}

\* a variant of the price argument that stores the price as it is
MutPrixAsTyped(prix) == Some(prix)

\* prix_demande=float(prix) if prix > 0 else None
PrixDemande(prix) == IF prix > 0 THEN Some(prix) ELSE NULL

\* a variant of insert_click_offer that replaces the offer the breaker made
\* before
MutInsertClickReplaces(tbl, breaker_id, code_moteur, prix_demande, qty) ==
    LET row == [id |-> Len(tbl) + 1, breaker_id |-> breaker_id,
                code_moteur |-> Upper(Strip(code_moteur)),
                prix_demande |-> prix_demande, qty |-> qty]
    IN  IF \E j \in DOMAIN tbl : tbl[j].breaker_id = breaker_id
        THEN [j \in DOMAIN tbl |-> IF tbl[j].breaker_id = breaker_id
                                   THEN [row EXCEPT !.id = tbl[j].id] ELSE tbl[j]]
        ELSE Append(tbl, row)

\* insert_click_offer: breaker_click_offers after the INSERT
insert_click_offer(tbl, breaker_id, code_moteur, prix_demande, qty) ==
    Append(tbl, [id |-> Len(tbl) + 1, breaker_id |-> breaker_id,
                 code_moteur |-> Upper(Strip(code_moteur)),
                 prix_demande |-> prix_demande, qty |-> qty])

\* insert_free_offer: breaker_free_offers after the INSERT
insert_free_offer(tbl, breaker_id, texte, prix_demande) ==
    Append(tbl, [id |-> Len(tbl) + 1, breaker_id |-> breaker_id,
                 texte |-> Strip(texte), prix_demande |-> prix_demande])

\* f"Alternative pour {code}: {alt_desc}"
AlternativeText(code, alt_desc) ==
    <<"A", "l", "t", "e", "r", "n", "a", "t", "i", "v", "e", " ", "p", "o", "u", "r", " ">>
        \o code \o <<":", " ">> \o alt_desc

OffersFull == Len(breaker_click_offers) + Len(breaker_free_offers) >= MaxOffers

\* render_casse, button "Envoyer" of a need
SubmitClickOffer(s, code, raw_prix, raw_qty) ==
    /\ LoggedIn(s)
    /\ ~OffersFull
    /\ \E prix_propose \in NumberInput(raw_prix, 0, DefaultPrix),
          qty \in NumberInput(raw_qty, 1, 1) :
           breaker_click_offers' =
               insert_click_offer(breaker_click_offers, Val(session_state[s].breaker_id),
                                  code, PrixDemande(prix_propose), qty)
    /\ submission' = Some([button |-> "send", session |-> s, texte |-> code,
                           prix |-> raw_prix, qty |-> raw_qty, written |-> TRUE])
    /\ UNCHANGED <<sessionVars, breakers, breakers_id_seq, sql_df_cache, breaker_free_offers>>
    /\ SessionFrame

\* render_casse, button "Envoyer alternative" of a need
SubmitAlternative(s, code, alt_desc, raw_prix) ==
    /\ LoggedIn(s)
    /\ ~OffersFull
    /\ IF Strip(alt_desc) = <<>>
       THEN UNCHANGED breaker_free_offers
       ELSE \E alt_prix \in NumberInput(raw_prix, 0, DefaultPrix) :
                breaker_free_offers' =
                    insert_free_offer(breaker_free_offers, Val(session_state[s].breaker_id),
                                      AlternativeText(code, alt_desc), PrixDemande(alt_prix))
    /\ submission' = Some([button |-> "send_alt", session |-> s, texte |-> alt_desc,
                           prix |-> raw_prix, qty |-> RawNumber(1),
                           written |-> Strip(alt_desc) # <<>>])
    /\ UNCHANGED <<sessionVars, breakers, breakers_id_seq, sql_df_cache, breaker_click_offers>>
    /\ SessionFrame

\* render_casse, button "Envoyer" of the engine out of the list
SubmitFreeOffer(s, texte, raw_prix) ==
    /\ LoggedIn(s)
    /\ ~OffersFull
    /\ IF Strip(texte) = <<>>
       THEN UNCHANGED breaker_free_offers
       ELSE \E free_prix \in NumberInput(raw_prix, 0, 0) :
                breaker_free_offers' =
                    insert_free_offer(breaker_free_offers, Val(session_state[s].breaker_id),
                                      texte, PrixDemande(free_prix))
    /\ submission' = Some([button |-> "send_free", session |-> s, texte |-> texte,
                           prix |-> raw_prix, qty |-> RawNumber(1),
                           written |-> Strip(texte) # <<>>])
    /\ UNCHANGED <<sessionVars, breakers, breakers_id_seq, sql_df_cache, breaker_click_offers>>
    /\ SessionFrame

(***************************************************************************)
(* Specifications of the sessions                                          *)
(***************************************************************************)
\* what is typed in the login forms
UserInputs == {<<>>, <<"u">>, <<"x">>}
PasswordInputs == {<<>>, <<"p">>, <<"u">>}
CodeInputs == {<<>>, <<" ", "c">>, <<"x">>}
BreakerInputs == {<<>>, <<" ">>, <<" ", "A">>, <<"B">>}

\* what is typed in the number boxes of the offers
RawNumbers == {NotANumber, RawNumber(-5), RawNumber(0), RawNumber(2)}

\* one session: admin and breaker logins, navigation, offers of fixed content
NextSession ==
    \/ \E user \in UserInputs, pwd \in PasswordInputs : LoginAdmin(1, user, pwd)
    \/ LoginCasse(1)
    \/ \E name \in PageNames : SetPage(1, name)
    \/ Logout(1)
    \/ ResetSession(1)
    \/ \E name \in BreakerInputs, code \in CodeInputs : BreakerLogin(1, name, code)
    \/ InsertBreaker(1)
    \/ RerunCasse(1)
    \/ Quitter(1)
    \/ \E name \in BreakerNames : CacheExpire(name)
    \/ SubmitClickOffer(1, K9K, RawNumber(2), RawNumber(2))
    \/ SubmitFreeOffer(1, <<"F">>, RawNumber(2))

SpecSession == Init /\ [][NextSession]_vars

\* two breaker sessions side by side
NextBreakers ==
    \E s \in Sessions :
        \/ LoginCasse(s)
        \/ \E name \in {<<"A">>, <<"B">>} : BreakerLogin(s, name, BREAKER_ACCESS_CODE)
        \/ InsertBreaker(s)
        \/ RerunCasse(s)
        \/ Quitter(s)
        \/ \E name \in BreakerNames : CacheExpire(name)
        \/ SubmitClickOffer(s, K9K, RawNumber(2), RawNumber(1))

SpecBreakers == Init /\ [][NextBreakers]_vars

\* one breaker session and everything that can be typed in an offer
NextOffers ==
    \/ LoginCasse(1)
    \/ BreakerLogin(1, <<"A">>, BREAKER_ACCESS_CODE)
    \/ InsertBreaker(1)
    \/ Quitter(1)
    \/ ResetSession(1)
    \/ \E raw_prix \in RawNumbers, raw_qty \in RawNumbers :
           SubmitClickOffer(1, K9K, raw_prix, raw_qty)
    \/ \E alt_desc \in {<<>>, <<"F">>}, raw_prix \in RawNumbers :
           SubmitAlternative(1, K9K, alt_desc, raw_prix)
    \/ \E texte \in {<<" ">>, <<"F">>}, raw_prix \in RawNumbers :
           SubmitFreeOffer(1, texte, raw_prix)

SpecOffers == Init /\ [][NextOffers]_vars

(***************************************************************************)
(* Properties of the need aggregator                                       *)
(***************************************************************************)
Called == besoins_top_n > 0

BesoinsRows == { besoins[j] : j \in DOMAIN besoins }

BesoinsCodes == { r.code_moteur : r \in BesoinsRows }

\* every row of the need list before LIMIT, with its score
ScoredRows == { WithScore(<<r>>)[1] : r \in SelectRows }

\* the engines whose code is `code` once uppercased
MoteursOfCode(code) ==
    { m \in Moteurs : ~IsNull(m.code_moteur) /\ Upper(Val(m.code_moteur)) = code }

\* the expeditions of the last 3 months of the engines of a code
WindowSales(code) ==
    Cardinality({ p \in tbl_expeditions_moteurs \X MoteursOfCode(code) :
                    p[1].n_moteur = p[2].n_moteur /\ p[1].date_validation <= 3 })

HasExpedition(m) == \E e \in tbl_expeditions_moteurs : e.n_moteur = m.n_moteur

\* C1: the result is the top_n first rows of the need list sorted by urgency:
\* no code left out of the result has a strictly higher score_urgence than a
\* code that is in the result.
C1_TopNAfterSort ==
    Called =>
        \A out \in ScoredRows, in \in BesoinsRows :
            out.code_moteur \notin BesoinsCodes =>
                out.score_urgence <= in.score_urgence

\* C2: every code appears in at most one row of the result, and that row's
\* nb_vendus_3m is the number of sales of the uppercased code inside the
\* window, whatever the engine types of the sold engines.
C2_OneRowPerCode ==
    Called =>
        /\ \A i, j \in DOMAIN besoins :
               besoins[i].code_moteur = besoins[j].code_moteur => i = j
        /\ \A r \in BesoinsRows : r.nb_vendus_3m = WindowSales(r.code_moteur)

\* C6: the result is ordered by score_urgence descending, rows with equal
\* score_urgence by nb_vendus_3m descending.
C6_SortedDescending ==
    \A j \in 1..(Len(besoins) - 1) :
        \/ besoins[j].score_urgence > besoins[j + 1].score_urgence
        \/ /\ besoins[j].score_urgence = besoins[j + 1].score_urgence
           /\ besoins[j].nb_vendus_3m >= besoins[j + 1].nb_vendus_3m

\* two rows with the same score, put in order by their sales counts
C6_Witness ==
    /\ Len(besoins) = 2
    /\ besoins[1].score_urgence = besoins[2].score_urgence
    /\ besoins[1].nb_vendus_3m > besoins[2].nb_vendus_3m

\* C7: a code with available stock but no sale inside the window never
\* appears in the result; every row has nb_vendus_3m >= 1.
C7_ZeroSalesExcluded ==
    Called =>
        \A r \in BesoinsRows :
            r.nb_vendus_3m >= 1 /\ WindowSales(r.code_moteur) >= 1

\* a call that returns rows while a code has an engine in stock, an engine
\* sold before the window and no sale inside the window
C7_Witness ==
    /\ Called
    /\ besoins # <<>>
    /\ \E m \in Moteurs :
           /\ ~HasExpedition(m)
           /\ WindowSales(Upper(Val(m.code_moteur))) = 0
           /\ \E x \in MoteursOfCode(Upper(Val(m.code_moteur))) : HasExpedition(x)
           /\ Upper(Val(m.code_moteur)) \notin BesoinsCodes

\* C8: nb_stock_dispo of a row counts exactly the engines of the code that
\* are in stock, unsold and not archived; an archived engine is never counted.
C8_StockExcludesArchived ==
    Called =>
        \A r \in BesoinsRows :
            r.nb_stock_dispo =
                Cardinality({ m \in MoteursOfCode(r.code_moteur) :
                                ~HasExpedition(m) /\ m.archiver # Some(TRUE) })

\* the purchases of a code that are at most w months old
PurchasesWithin(code, w) ==
    { m \in MoteursOfCode(code) :
        /\ ~IsNull(m.prix_achat_moteur)
        /\ ~IsNull(m.date_achat)
        /\ Val(m.date_achat) <= w }

\* avg is the average price of the purchases P to the nearest hundredth,
\* NULL when P is empty
IsAverageOf(avg, P) ==
    LET prix == [m \in P |-> Val(m.prix_achat_moteur)]
        n == Cardinality(P)
        d == Val(avg) * n - 100 * SumOver(P, prix)
    IN  IF P = {} THEN IsNull(avg)
        ELSE ~IsNull(avg) /\ 2 * d <= n /\ 2 * d >= -n

\* C9: the 3, 6 and 12 months averages of a row are each the average of the
\* purchases of the code whose age a satisfies a <= W, and NULL when the
\* window holds no purchase.
C9_WindowAverages ==
    Called =>
        \A r \in BesoinsRows :
            /\ IsAverageOf(r.prix_moy_achat_3m, PurchasesWithin(r.code_moteur, 3))
            /\ IsAverageOf(r.prix_moy_achat_6m, PurchasesWithin(r.code_moteur, 6))
            /\ IsAverageOf(r.prix_moy_achat_12m, PurchasesWithin(r.code_moteur, 12))

\* a row whose only purchase is 10 months old: it is in the 12 months average
\* and in neither of the other two
C9_Witness ==
    /\ Called
    /\ \E r \in BesoinsRows :
           /\ IsNull(r.prix_moy_achat_3m)
           /\ IsNull(r.prix_moy_achat_6m)
           /\ ~IsNull(r.prix_moy_achat_12m)
           /\ \E m \in MoteursOfCode(r.code_moteur) : m.date_achat = Some(10)

(***************************************************************************)
(* Properties of the urgency score                                         *)
(***************************************************************************)
Scored == ~IsNull(df_row.score_urgence)

Score == Val(df_row.score_urgence)

\* h hundredths is a nearest 2-decimal value of n/d
IsNearestHundredth(h, n, d) ==
    /\ 2 * (h * d - 100 * n) <= d
    /\ 2 * (100 * n - h * d) <= d

\* C3: score_urgence is nb_vendus_3m / (nb_stock_dispo + 1) rounded to 2
\* decimals; sales 10 with stock 0, 4, 9 gives 10.00, 2.00, 1.00 and sales 1
\* with stock 0 gives 1.00.
C3_ScoreIsRoundedRatio ==
    Scored =>
        /\ IsNearestHundredth(Score, df_row.nb_vendus_3m, df_row.nb_stock_dispo + 1)
        /\ (df_row.nb_vendus_3m = 10 /\ df_row.nb_stock_dispo = 0 => Score = 1000)
        /\ (df_row.nb_vendus_3m = 10 /\ df_row.nb_stock_dispo = 4 => Score = 200)
        /\ (df_row.nb_vendus_3m = 10 /\ df_row.nb_stock_dispo = 9 => Score = 100)
        /\ (df_row.nb_vendus_3m = 1 /\ df_row.nb_stock_dispo = 0 => Score = 100)

\* a scored row whose ratio 10/7 is not a 2-decimal value
C3_Witness ==
    Scored /\ df_row.nb_vendus_3m = 10 /\ df_row.nb_stock_dispo = 6 /\ Score = 143

\* the row is scored again with the same sales count and a larger stock count
Restocked ==
    /\ Scored
    /\ Scored'
    /\ df_row'.nb_vendus_3m = df_row.nb_vendus_3m
    /\ df_row'.nb_stock_dispo > df_row.nb_stock_dispo

\* C4: for a fixed nb_vendus_3m > 0, a larger stock count never gives a
\* larger score_urgence.
C4_Monotone ==
    [][Restocked /\ df_row.nb_vendus_3m > 0 =>
           Val(df_row'.score_urgence) <= Val(df_row.score_urgence)]_vars

\* a row scored with sales 10 and stock 9
C4_Witness ==
    Scored /\ df_row.nb_vendus_3m = 10 /\ df_row.nb_stock_dispo = 9 /\ Score = 100

\* C5 as stated: for a fixed nb_vendus_3m, the rounded score_urgence strictly
\* decreases whenever the stock count increases, and it is 0 when
\* nb_vendus_3m is 0.
C5_StrictlyDecreasing ==
    [][/\ (Scored' /\ df_row'.nb_vendus_3m = 0 => Val(df_row'.score_urgence) = 0)
       /\ (Restocked /\ df_row.nb_vendus_3m > 0 =>
               Val(df_row'.score_urgence) < Val(df_row.score_urgence))]_vars

\* C5 amended: for a fixed nb_vendus_3m > 0, the rounded score_urgence never
\* increases when the stock count increases, and strictly decreases whenever
\* the two exact ratios differ by more than 0.01; it is 0 when nb_vendus_3m
\* is 0.
C5_DecreasingUpToRounding ==
    [][/\ (Scored' /\ df_row'.nb_vendus_3m = 0 => Val(df_row'.score_urgence) = 0)
       /\ (Restocked /\ df_row.nb_vendus_3m > 0 =>
              /\ Val(df_row'.score_urgence) <= Val(df_row.score_urgence)
              /\ (100 * df_row.nb_vendus_3m
                      * (df_row'.nb_stock_dispo - df_row.nb_stock_dispo)
                    > (df_row.nb_stock_dispo + 1) * (df_row'.nb_stock_dispo + 1)
                  => Val(df_row'.score_urgence) < Val(df_row.score_urgence)))]_vars

\* a row with one sale and 12 engines in stock: its score 0.08 is also the
\* score of the same sales with 11 engines in stock
C5_Witness ==
    Scored /\ df_row.nb_vendus_3m = 1 /\ df_row.nb_stock_dispo = 12 /\ Score = 8

(***************************************************************************)
(* Properties of the text normalizer                                       *)
(***************************************************************************)
\* C10: normalize_text(normalize_text(s)) = normalize_text(s) for every s,
\* including the strings that begin or end with "-", "_" or ".".
C10_Idempotent ==
    [][text_in' = Some(text_out) => text_out' = text_out]_vars

\* C11: the result of normalize_text is in normal form: uppercase, with no
\* leading or trailing whitespace, none of "-", "_", ".", and no two
\* consecutive whitespace characters; it is "" for a null or empty input, and
\* "K9K DIESEL" for "  K9K   DIESEL ".
C11_NormalForm ==
    /\ text_out = Upper(text_out)
    /\ (text_out # <<>> => ~IsSpace(Head(text_out)) /\ ~IsSpace(text_out[Len(text_out)]))
    /\ \A i \in DOMAIN text_out : text_out[i] \notin {"-", "_", "."}
    /\ \A i \in 1..(Len(text_out) - 1) :
           ~(IsSpace(text_out[i]) /\ IsSpace(text_out[i + 1]))
    /\ (IsNull(text_in) \/ text_in = Some(<<>>) => text_out = <<>>)
    /\ (text_in = Some(ExampleText) => text_out = ExampleNorm)

(***************************************************************************)
(* Properties of the synonym expander                                      *)
(***************************************************************************)
\* the canonical terms and the <<canonical term, synonym>> pairs of the table
CanonicalTerms == { get_motor_synonyms[k][1] : k \in DOMAIN get_motor_synonyms }

SynonymPairs ==
    UNION { { <<get_motor_synonyms[k][1], get_motor_synonyms[k][2][i]>>
                : i \in DOMAIN get_motor_synonyms[k][2] }
            : k \in DOMAIN get_motor_synonyms }

\* the variants of a normalized input: the input itself, the input with a
\* synonym it contains replaced by its canonical term, and the input with a
\* canonical term it contains replaced by one of its synonyms
ExpectedVariants(norm) ==
    {norm}
    \cup { ReplaceAll(norm, p[2], p[1]) : p \in { q \in SynonymPairs : Contains(q[2], norm) } }
    \cup { ReplaceAll(norm, p[1], p[2]) : p \in { q \in SynonymPairs : Contains(q[1], norm) } }

\* C12 as stated: for every input text, null and empty included, the result
\* is exactly the set of the normalized input itself (always), the input with
\* each synonym it contains replaced by its canonical term, and the input
\* with each canonical term it contains replaced by each of its synonyms.
C12_VariantsOfEveryText ==
    variants = ExpectedVariants(normalize_text(variants_in))

\* C12 amended: the same for every non-empty input text.
C12_VariantsOfNonEmptyText ==
    ~IsNull(variants_in) /\ variants_in # Some(<<>>) =>
        variants = ExpectedVariants(normalize_text(variants_in))

\* the text "BmW": it holds the canonical term BMW and its synonym BM
C12_Witness ==
    /\ variants_in = Some(<<"B", "m", "W">>)
    /\ variants = { <<"B", "M", "W">>, <<"B", "M">>, <<"B", "M", "W", "W">> }

(***************************************************************************)
(* Properties of the fuzzy matcher                                         *)
(***************************************************************************)
\* the query of the last call is neither null, empty nor blank
NonBlankQuery == normalize_text(search_text) # <<>>

\* the composite description of a row: its code, brand, fuel and three model
\* columns joined by spaces, a missing column giving no text
Description(row) ==
    normalize_text(Some(Join(<<row.code_moteur, Coalesce(row.marque, <<>>),
                               Coalesce(row.energie, <<>>), Coalesce(row.type_nom, <<>>),
                               Coalesce(row.type_modele, <<>>),
                               Coalesce(row.type_annee, <<>>)>>)))

\* the score of a row for a query, term by term
ExpectedScore(text, row) ==
    LET query == normalize_text(text)
        qwords == Split(query)
        dwords == Split(Description(row))
    IN  (IF Contains(query, Description(row)) THEN 100 ELSE 0)
        + 50 * Cardinality({ v \in create_search_variants(text) :
                               Contains(v, Description(row)) })
        + 10 * Cardinality({ p \in (DOMAIN qwords) \X (DOMAIN dwords) :
                               /\ Len(qwords[p[1]]) >= 2
                               /\ \/ Contains(qwords[p[1]], dwords[p[2]])
                                  \/ Contains(dwords[p[2]], qwords[p[1]]) })
        + (IF Contains(query, row.code_moteur) THEN 200 ELSE 0)

\* the score the last call gave to the row with index label idx
ScoreOf(idx) ==
    search_scores[CHOOSE j \in DOMAIN search_scores : search_scores[j][1] = idx][2]

\* C13: for every non-empty query and every candidate, the score is 100 if
\* the normalized query is in the normalized composite description (code,
\* brand, fuel, three model columns joined by spaces), plus 50 per synonym
\* variant of the query that is in the description, plus 10 per pair (query
\* word of 2 characters or more, description word) where one is in the
\* other, plus 200 if the normalized query is in the code.
C13_ScoreFormula ==
    NonBlankQuery =>
        \A j \in DOMAIN search_scores :
            search_scores[j][2] =
                ExpectedScore(search_text, Loc(search_besoins, search_scores[j][1]))

\* a call went through the scoring loop: the text is neither null nor empty
\* and there are candidates
Matched == ~IsNull(search_text) /\ search_text # Some(<<>>) /\ search_besoins # <<>>

\* the position of the row with index label idx in a data frame
PositionIn(df, idx) == CHOOSE j \in DOMAIN df : df[j].idx = idx

\* C14: for a non-empty query over a non-empty candidate set, the result
\* holds exactly the candidates whose score is > 0, each once, in
\* non-increasing score order; it is empty when no candidate scores > 0.
C14_PositiveScoresSorted ==
    Matched =>
        /\ { search_result[j] : j \in DOMAIN search_result }
             = { search_besoins[j] : j \in { k \in DOMAIN search_besoins :
                                               ScoreOf(search_besoins[k].idx) > 0 } }
        /\ \A j, k \in DOMAIN search_result :
               j < k => /\ search_result[j] # search_result[k]
                        /\ ScoreOf(search_result[j].idx) >= ScoreOf(search_result[k].idx)
        /\ ((\A j \in DOMAIN search_scores : search_scores[j][2] <= 0)
               => search_result = <<>>)

\* two candidates with different positive scores, the second of the list
\* ranked first
C14_Witness ==
    /\ Matched
    /\ Len(search_result) = 2
    /\ search_result[1].idx = 2
    /\ ScoreOf(2) > ScoreOf(1)

\* C15: two candidates with the same positive score are in the result in the
\* order they have in the candidate list.
C15_StableOnTies ==
    Matched =>
        \A j, k \in DOMAIN search_result :
            j < k /\ ScoreOf(search_result[j].idx) = ScoreOf(search_result[k].idx)
                => PositionIn(search_besoins, search_result[j].idx)
                     < PositionIn(search_besoins, search_result[k].idx)

\* two candidates described alike, scored 160 each for the query "k9"
C15_Witness ==
    /\ Matched
    /\ NonBlankQuery
    /\ Len(search_result) = 2
    /\ ScoreOf(1) = ScoreOf(2)
    /\ ScoreOf(1) = 160
    /\ search_result = search_besoins

\* the candidates whose code contains the normalized query
CodeMatches ==
    { r \in { search_besoins[j] : j \in DOMAIN search_besoins } :
        Contains(normalize_text(search_text), r.code_moteur) }

\* the candidates that match only through their description
DescriptionOnly ==
    { r \in { search_besoins[j] : j \in DOMAIN search_besoins } :
        r \notin CodeMatches /\ ScoreOf(r.idx) > 0 }

\* C16 as stated: when exactly one candidate's code contains the normalized
\* query, that candidate is ranked first with a score >= 200, ahead of every
\* candidate that matches only through its description, the score of such a
\* candidate being always below the code bonus of 200.
C16_CodeMatchFirst ==
    Matched /\ NonBlankQuery /\ Cardinality(CodeMatches) = 1 =>
        \A c \in CodeMatches :
            /\ ScoreOf(c.idx) >= 200
            /\ search_result # <<>>
            /\ search_result[1] = c
            /\ \A d \in DescriptionOnly : ScoreOf(d.idx) < 200

\* C16 amended: when exactly one candidate's code contains the normalized
\* query, that candidate is in the result with a score >= 200, ahead of every
\* candidate that matches only through its description with a score lower
\* than its own, so ahead of every such candidate that scores below 200.
C16_CodeMatchDominatesBelow200 ==
    Matched /\ NonBlankQuery /\ Cardinality(CodeMatches) = 1 =>
        \A c \in CodeMatches :
            /\ ScoreOf(c.idx) >= 200
            /\ \E j \in DOMAIN search_result : search_result[j] = c
            /\ \A d \in DescriptionOnly :
                   ScoreOf(d.idx) < 200 \/ ScoreOf(d.idx) < ScoreOf(c.idx) =>
                       PositionIn(search_result, c.idx) < PositionIn(search_result, d.idx)

\* the query "k9" over a candidate described by K9K7 followed by the
\* candidate of code K9K: the second one is ranked first
C16_Witness ==
    /\ Matched
    /\ search_text = Some(<<"k", "9">>)
    /\ Len(search_besoins) = 2
    /\ search_besoins[2].code_moteur = K9K
    /\ search_besoins[1] \in DescriptionOnly
    /\ ScoreOf(1) < 200
    /\ search_result = <<search_besoins[2], search_besoins[1]>>

\* C17: a call with a null, empty or blank query, or with no candidate,
\* returns the candidate list unchanged in content and order.
C17_EmptyInputNoOp ==
    (IsNull(search_text) \/ Strip(Val(search_text)) = <<>> \/ search_besoins = <<>>)
        => search_result = search_besoins

\* the blank query " " over two candidates: both are scored and returned in
\* their order
C17_Witness ==
    /\ search_text = Some(<<" ">>)
    /\ Len(search_besoins) = 2
    /\ Len(search_scores) = 2
    /\ search_result = search_besoins

(***************************************************************************)
(* Properties of the price-movement detector                               *)
(***************************************************************************)
MoversCalled == ~IsNull(movers_args)

MoversArgs == Val(movers_args)

\* the observations of a code for the kind of the last call: the rows with a
\* price > 0 inside the lookback, whose age a satisfies lo < a <= hi
ObservedIn(code, lo, hi) ==
    { r \in BagToSet(observations) :
        /\ r.kind = MoversArgs.kind
        /\ Upper(r.code_moteur) = code
        /\ ~IsNull(r.prix) /\ Val(r.prix) > 0
        /\ r.dt <= MoversArgs.lookback_months
        /\ lo < r.dt /\ r.dt <= hi }

RecentObs(code) == ObservedIn(code, -1, MoversArgs.window_months)

PrevObs(code) == ObservedIn(code, MoversArgs.window_months, 2 * MoversArgs.window_months)

\* the sum of the prices of observations, each counted as often as it occurs
SumPrix(S) == SumOver(S, [r \in S |-> Val(r.prix) * CopiesIn(r, observations)])

\* avg, in hundredths, is the average price of the observations S to the
\* nearest hundredth
IsMeanOf(avg, S) ==
    /\ S # {}
    /\ ~IsNull(avg)
    /\ 2 * (Val(avg) * CountOf(S) - 100 * SumPrix(S)) <= CountOf(S)
    /\ 2 * (100 * SumPrix(S) - Val(avg) * CountOf(S)) <= CountOf(S)

\* C18: for both kinds, an observation of age a is counted in the recent
\* partition iff a <= window, and in the previous partition iff
\* window < a <= 2 * window; an older observation inside the lookback is in
\* neither count and neither average.
C18_Partitions ==
    MoversCalled =>
        \A rec \in movers :
            /\ rec.n_recent = CountOf(RecentObs(rec.code_moteur))
            /\ rec.n_prev = CountOf(PrevObs(rec.code_moteur))
            /\ IsMeanOf(rec.avg_recent, RecentObs(rec.code_moteur))
            /\ IsMeanOf(rec.avg_prev, PrevObs(rec.code_moteur))

\* a record of a call with a window of 3 months over observations of age 3,
\* 6 and 7: the first is recent, the second previous, the third in neither
C18_Witness ==
    /\ MoversCalled
    /\ MoversArgs.window_months = 3
    /\ \E rec \in movers :
           /\ rec.n_recent = 1 /\ rec.n_prev = 1
           /\ rec.avg_recent = Some(10300) /\ rec.avg_prev = Some(10600)
           /\ ObservedIn(rec.code_moteur, 6, 12) # {}

\* the codes that have a row of the kind of the last call
CodesOfKind ==
    { Upper(r.code_moteur) : r \in { x \in BagToSet(observations) : x.kind = MoversArgs.kind } }

\* C19: every record has n_recent >= min_count, n_prev >= min_count and both
\* averages; a code with fewer than min_count observations in one of the
\* partitions has no record.
C19_SmallSamplesExcluded ==
    MoversCalled =>
        /\ \A rec \in movers :
               /\ rec.n_recent >= MoversArgs.min_count
               /\ rec.n_prev >= MoversArgs.min_count
               /\ ~IsNull(rec.avg_recent)
               /\ ~IsNull(rec.avg_prev)
        /\ \A code \in CodesOfKind :
               (\/ CountOf(RecentObs(code)) < MoversArgs.min_count
                \/ CountOf(PrevObs(code)) < MoversArgs.min_count)
                   => \A rec \in movers : rec.code_moteur # code

\* a call that returns a record while another code, with a recent
\* observation and no previous one, gets none
C19_Witness ==
    /\ MoversCalled
    /\ movers # {}
    /\ \E code \in CodesOfKind :
           /\ CountOf(RecentObs(code)) >= MoversArgs.min_count
           /\ CountOf(PrevObs(code)) < MoversArgs.min_count
           /\ \A rec \in movers : rec.code_moteur # code

\* h hundredths is a nearest 2-decimal value of n/d, d > 0
IsRounded(h, n, d) == 2 * (h * d - 100 * n) <= d /\ 2 * (100 * n - h * d) <= d

\* C20 as stated: in every record, delta is the record's avg_recent minus
\* its avg_prev, and pct is delta / avg_prev * 100 of the record to 2
\* decimals (avg_prev 100 and avg_recent 120 give delta 20.00 and pct 20.00);
\* pct is null when avg_prev is 0 or null.
C20_DeltaOfRecord ==
    MoversCalled =>
        \A rec \in movers :
            /\ IsNull(rec.avg_prev) \/ rec.avg_prev = Some(0) => IsNull(rec.pct)
            /\ ~IsNull(rec.avg_prev) /\ rec.avg_prev # Some(0) =>
                   /\ rec.delta = Some(Val(rec.avg_recent) - Val(rec.avg_prev))
                   /\ ~IsNull(rec.pct)
                   /\ IsRounded(Val(rec.pct), 100 * Val(rec.delta), Val(rec.avg_prev))
            /\ rec.avg_prev = Some(10000) /\ rec.avg_recent = Some(12000) =>
                   rec.delta = Some(2000) /\ rec.pct = Some(2000)

\* C20 amended: in every record, delta is the difference of the two exact
\* partition averages rounded to 2 decimals, so within 0.01 of the record's
\* avg_recent minus its avg_prev, and pct is that exact difference divided
\* by the exact previous average, times 100, rounded to 2 decimals (avg_prev
\* 100 and avg_recent 120 give delta 20.00 and pct 20.00); a code whose
\* previous average is null or 0 gets a null pct.
C20_DeltaOfExactAverages ==
    MoversCalled =>
        /\ \A rec \in movers :
               LET R == RecentObs(rec.code_moteur)
                   P == PrevObs(rec.code_moteur)
                   diff == SumPrix(R) * CountOf(P) - SumPrix(P) * CountOf(R)
               IN  /\ ~IsNull(rec.delta)
                   /\ IsRounded(Val(rec.delta), diff, CountOf(R) * CountOf(P))
                   /\ Val(rec.delta) - (Val(rec.avg_recent) - Val(rec.avg_prev)) \in {-1, 0, 1}
                   /\ ~IsNull(rec.pct)
                   /\ IsRounded(Val(rec.pct), 100 * diff, SumPrix(P) * CountOf(R))
                   /\ (rec.avg_prev = Some(10000) /\ rec.avg_recent = Some(12000) =>
                          rec.delta = Some(2000) /\ rec.pct = Some(2000))
        /\ \A a \in Agg(MoversArgs.kind, MoversArgs.window_months,
                        MoversArgs.lookback_months) :
               IsNull(a.avg_prev) \/ Val(a.avg_prev)[1] = 0 => IsNull(SelectMover(a).pct)

\* a record with a recent average of 101.00 and a previous average of
\* 100.33 (100, 100 and 101): delta is 0.67 and pct is 0.66, while
\* 0.67 / 100.33 * 100 is 0.67 to 2 decimals
C20_Witness ==
    /\ MoversCalled
    /\ \E rec \in movers :
           /\ rec.avg_recent = Some(10100)
           /\ rec.avg_prev = Some(10033)
           /\ rec.delta = Some(67)
           /\ rec.pct = Some(66)

IsArrangementOfSubset(res, df) ==
    /\ \A j \in DOMAIN res : \E k \in DOMAIN df : res[j] = df[k]
    /\ \A j, k \in DOMAIN res : j # k => res[j].idx # res[k].idx

\* C29: a call of smart_match_motor leaves the candidate frame as it was, and
\* the frame it returns is an arrangement of a subset of the candidates: every
\* row of the result is a row of the input and no row is in it twice.
C29_InputUnchanged ==
    [][ /\ (~IsNull(search_text') => search_besoins' = search_besoins)
        /\ IsArrangementOfSubset(search_result', search_besoins') ]_vars

\* a call for a non-blank text over two candidates that returns one of them
C29_Witness ==
    /\ Matched
    /\ Len(search_besoins) = 2
    /\ Len(search_result) = 1
    /\ search_besoins[1].idx = 1 /\ search_besoins[2].idx = 2

(***************************************************************************)
(* Properties of the plate filter                                          *)
(***************************************************************************)
PlaqueCalled == ~IsNull(plaque_info)

PlaqueInfo == Val(plaque_info)

\* the needs whose code is the plate's code, whatever the case
NeedsOfCode ==
    SelectSeq(plaque_besoins,
              LAMBDA r : Upper(r.code_moteur) = Upper(Val(PlaqueInfo.code_moteur)))

\* a column of a need contains a value of the plate; every column contains
\* the empty value
HasInside(col, value) ==
    value = <<>> \/ (~IsNull(col) /\ Contains(Upper(value), Upper(Val(col))))

\* the needs whose brand contains the plate's brand and whose fuel contains
\* the plate's fuel
NeedsOfBrandAndFuel ==
    SelectSeq(plaque_besoins,
              LAMBDA r : /\ HasInside(r.marque, Val(PlaqueInfo.marque))
                         /\ HasInside(r.energie, Val(PlaqueInfo.energie)))

\* what the three steps give
ExpectedOfPlaque ==
    IF PlaqueInfo.code_moteur # Some(<<>>) /\ NeedsOfCode # <<>> THEN NeedsOfCode
    ELSE IF NeedsOfBrandAndFuel # <<>> THEN NeedsOfBrandAndFuel
    ELSE plaque_besoins

\* res holds rows of df, in the order of df
IsSubFrame(res, df) ==
    /\ \A j \in DOMAIN res : \E k \in DOMAIN df : res[j] = df[k]
    /\ \A j, k \in DOMAIN res : j < k => res[j].idx < res[k].idx

PlaqueInfoIsText ==
    /\ ~IsNull(PlaqueInfo.code_moteur)
    /\ ~IsNull(PlaqueInfo.marque)
    /\ ~IsNull(PlaqueInfo.energie)

\* C25: filter_besoins_by_plaque returns the needs of the plate's code when
\* there are some, else the needs of the plate's brand and fuel, else all the
\* needs; it always returns a frame, which is non-empty for a non-empty need
\* list and holds rows of the input in the input's order.
C25_ThreeStepFallback ==
    PlaqueCalled =>
        /\ ~plaque_result.raised
        /\ (PlaqueInfoIsText => plaque_result.df = ExpectedOfPlaque)
        /\ (plaque_besoins # <<>> => plaque_result.df # <<>>)
        /\ IsSubFrame(plaque_result.df, plaque_besoins)

\* the three steps are followed whenever the plate's code, brand and fuel are
\* all texts
PlaqueFallbackOfTexts ==
    (PlaqueCalled /\ PlaqueInfoIsText) =>
        /\ ~plaque_result.raised
        /\ plaque_result.df = ExpectedOfPlaque
        /\ plaque_result.df # <<>>
        /\ IsSubFrame(plaque_result.df, plaque_besoins)

(***************************************************************************)
(* Properties of the pages of the need list                                *)
(***************************************************************************)
\* C26: whenever the breaker page shows a need list, the stored page number
\* is between 1 and pages = max(1, ceil(total / 20)) of that list, so the
\* slice it shows is not empty.
C26_PageInRange ==
    casse_total > 0 =>
        /\ ~IsNull(casse_page)
        /\ 1 <= Val(casse_page)
        /\ Val(casse_page) <= Pages(casse_total)
        /\ (Val(casse_page) - 1) * PAGE_SIZE < casse_total

\* the page number never goes below 1, and the buttons keep it within the
\* pages of the list they are shown with
PageAtLeastOne == IsNull(casse_page) \/ Val(casse_page) >= 1

(***************************************************************************)
(* Properties of the breaker identity                                      *)
(***************************************************************************)
\* the rows of breakers with a name
RowsNamed(name) == { j \in DOMAIN breakers : breakers[j].name = name }

\* the last get_or_create_breaker call of session s is over and has returned
\* the id of the one row whose name is the trimmed input
ReturnedTheRow(s) ==
    LET c == Val(last_call[s])
    IN  /\ ~c.raised
        /\ ~IsNull(c.id)
        /\ \E j \in DOMAIN breakers :
               /\ RowsNamed(Strip(c.name)) = {j}
               /\ breakers[j].id = Val(c.id)

\* C21: every get_or_create_breaker call with a non-blank name succeeds and
\* returns the id of the single breakers row whose name is the trimmed input;
\* no name has two rows, so two calls with a name return the same id.
C21_BreakerUniqueByName ==
    /\ \A s \in Sessions :
           (~IsNull(last_call[s]) /\ Strip(Val(last_call[s]).name) # <<>>)
               => ReturnedTheRow(s)
    /\ \A j, k \in DOMAIN breakers :
           breakers[j].name = breakers[k].name => j = k

\* no name has two rows and no id is given twice, whatever the calls did
BreakerRowsUnique ==
    \A j, k \in DOMAIN breakers :
        (breakers[j].name = breakers[k].name \/ breakers[j].id = breakers[k].id) => j = k

\* every offer row is owned by a row of breakers and has its own id
OffersOwned ==
    /\ \A j \in DOMAIN breaker_click_offers :
           /\ breaker_click_offers[j].id = j
           /\ \E b \in DOMAIN breakers :
                  breakers[b].id = breaker_click_offers[j].breaker_id
    /\ \A j \in DOMAIN breaker_free_offers :
           /\ breaker_free_offers[j].id = j
           /\ \E b \in DOMAIN breakers :
                  breakers[b].id = breaker_free_offers[j].breaker_id

\* C22: under every interleaving of two breaker sessions no step fails, also
\* when both log in with the same new name, and every submitted offer is a
\* row of its own, owned by the breaker that submitted it.
C22_ConcurrentSessionsSafe ==
    /\ \A s \in Sessions : ~IsNull(last_call[s]) => ~Val(last_call[s]).raised
    /\ OffersOwned
    /\ (~IsNull(submission) /\ LoggedIn(Val(submission).session)) =>
           \E j \in DOMAIN breaker_click_offers :
               breaker_click_offers[j].breaker_id
                   = Val(session_state[Val(submission).session].breaker_id)

(***************************************************************************)
(* Properties of the routing and of the breaker session                    *)
(***************************************************************************)
\* the values session_state["page"] can be given, and one it is never given
PageValues == {NULL, Some("zzz")} \cup { Some(p) : p \in PageNames }

\* C27: a session that entered through the breaker access never shows an
\* admin page, whatever its page value is; an admin page is shown only in a
\* session whose mode is "admin", set by a login with the admin credentials.
C27_CasseNeverAdmin ==
    /\ \A s \in Sessions :
           /\ login_by[s] = "casse button" => rendered[s] \notin AdminPages
           /\ session_state[s].mode = Some("casse") => rendered[s] \notin AdminPages
           /\ rendered[s] \in AdminPages =>
                  /\ session_state[s].mode = Some("admin")
                  /\ login_by[s] = "admin credentials"
    /\ \A page \in PageValues, ok \in BOOLEAN, id \in {NULL, Some(1)} :
           main([authenticated |-> TRUE, mode |-> Some("casse"), page |-> page,
                 breaker_ok |-> ok, breaker_id |-> id]) \notin AdminPages

\* a session that entered through the breaker access, logged in as a breaker,
\* left with "Quitter" and is shown the breaker page again
C27_Witness ==
    /\ login_by[1] = "casse button"
    /\ rendered[1] = "casse"
    /\ breakers # <<>>
    /\ OnLoginForm(1)
    /\ breaker_click_offers # <<>>

\* the rows a step adds to the two offer tables
NewOffers ==
    { breaker_click_offers'[j].breaker_id :
          j \in (DOMAIN breaker_click_offers') \ (DOMAIN breaker_click_offers) }
    \cup { breaker_free_offers'[j].breaker_id :
               j \in (DOMAIN breaker_free_offers') \ (DOMAIN breaker_free_offers) }

\* session s holds the id that get_or_create_breaker returned for a non-blank
\* name after the right access code, and has not left since
HoldsBreakerId(s, id) ==
    /\ session_state[s].breaker_ok
    /\ session_state[s].breaker_id = Some(id)
    /\ ~IsNull(last_call[s])
    /\ ~Val(last_call[s]).raised
    /\ Val(last_call[s]).id = Some(id)
    /\ Strip(Val(last_call[s]).name) # <<>>
    /\ Strip(Val(last_call[s]).code) = BREAKER_ACCESS_CODE

\* C28: an offer row is only inserted by a session where breaker_ok is true
\* and breaker_id is the id get_or_create_breaker returned to it after a
\* correct access code and a non-blank name; after "Quitter" or a session
\* reset there is no insert before a new login.
C28_InsertOnlyLoggedIn ==
    [][ \A id \in NewOffers : \E s \in Sessions : HoldsBreakerId(s, id) ]_vars

\* a breaker that left with "Quitter", logged in again and sent an offer
C28_Witness ==
    /\ Len(breaker_click_offers) + Len(breaker_free_offers) = 2
    /\ ~IsNull(submission)
    /\ HoldsBreakerId(1, 1)
    /\ Len(breakers) = 2
    /\ breaker_free_offers # <<>> /\ breaker_free_offers[1].breaker_id = 1

(***************************************************************************)
(* Properties of the offers                                                *)
(***************************************************************************)
\* tbl2 is tbl with rows added at its end
Extends(tbl2, tbl) ==
    /\ Len(tbl2) >= Len(tbl)
    /\ \A j \in DOMAIN tbl : tbl2[j] = tbl[j]

NbOffers == Len(breaker_click_offers) + Len(breaker_free_offers)

\* C23: every step leaves the offer rows there are as they are; a step that
\* calls insert_click_offer or insert_free_offer adds exactly one row, and no
\* other step adds or removes one.
C23_OffersAppendOnly ==
    [][ /\ Extends(breaker_click_offers', breaker_click_offers)
        /\ Extends(breaker_free_offers', breaker_free_offers)
        /\ NbOffers' \in {NbOffers, NbOffers + 1}
        /\ (NbOffers' = NbOffers + 1 =>
                ~IsNull(submission') /\ Val(submission').written)
        /\ ((submission' # submission /\ Val(submission').written) =>
                NbOffers' = NbOffers + 1) ]_vars

\* a breaker has sent two offers for the same engine
C23_Witness ==
    /\ Len(breaker_click_offers) = 2
    /\ breaker_click_offers[1].breaker_id = breaker_click_offers[2].breaker_id
    /\ breaker_click_offers[1].code_moteur = breaker_click_offers[2].code_moteur

\* what was typed is no number, or a number below min_value
Malformed(raw, min_value) == ~raw.numeric \/ raw.v < min_value

\* the last send click was made with a malformed price or quantity
MalformedSubmission ==
    /\ ~IsNull(submission)
    /\ \/ Malformed(Val(submission).prix, 0)
       \/ Malformed(Val(submission).qty, 1)

\* C24: an offer submission with a non-numeric or negative price or quantity
\* is rejected before persistence: it writes no row.
C24_MalformedRejected ==
    MalformedSubmission => ~Val(submission).written

\* C24, as the code has it: the number boxes deliver a price >= 0 and a
\* quantity >= 1 whatever is typed, and the handlers have no rejection of
\* their own for them: a send click writes a row unless the description is
\* blank; a price of 0 is stored as NULL, so no row has a negative or zero
\* price or a quantity < 1.
C24_NoMalformedStored ==
    /\ \A j \in DOMAIN breaker_click_offers :
           /\ breaker_click_offers[j].qty >= 1
           /\ \/ IsNull(breaker_click_offers[j].prix_demande)
              \/ Val(breaker_click_offers[j].prix_demande) > 0
    /\ \A j \in DOMAIN breaker_free_offers :
           \/ IsNull(breaker_free_offers[j].prix_demande)
           \/ Val(breaker_free_offers[j].prix_demande) > 0
    /\ ~IsNull(submission) =>
           (Val(submission).written <=> Strip(Val(submission).texte) # <<>>)

\* a send click with -5 typed as the price has written a row without price
C24_Witness ==
    /\ ~IsNull(submission)
    /\ Val(submission).button = "send"
    /\ Val(submission).prix = RawNumber(-5)
    /\ Val(submission).written
    /\ \E j \in DOMAIN breaker_click_offers :
           IsNull(breaker_click_offers[j].prix_demande)

====
